---- MODULE Spec2Model ----
(***************************************************************************)
(* Scoring and annotation engine of the Brainz education server:           *)
(* the questionnaire scorer, the annotation parser of the AI dialogue      *)
(* endpoints, the badge ledger and the completion evaluator, modelled      *)
(* from server/routes.ts, schema.ts and the client components.             *)
(***************************************************************************)
EXTENDS Integers, Sequences, FiniteSets, TLC

VARIABLES
    userResponses,              \* rows of table user_responses (one user, type 'aot'), in created_at order
    hasCompletedQuestionnaire,  \* users.has_completed_questionnaire
    aotScore,                   \* users.aot_score
    lastReply,                  \* the reply of the most recent questionnaire request
    userBadges,                 \* table user_badges: the number of rows per <<userId, badgeId>>
    req,                        \* per request slot: the request being handled and its reply
    started,                    \* the number of requests received so far
    session,                    \* the state of the game component open in the client
    totalScore,                 \* users.total_score of the user
    scoreReq,                   \* per request slot: the POST /api/update-score request being handled
    scoreLog,                   \* the server's [Score Update] log: requests received, sum of the points of
                                \* the updates written, how many of them were negative
    reference                   \* tables badges and aot_questions (rows per seeded entry) and the
                                \* initialization runs of the server processes

scoreVars == <<userResponses, hasCompletedQuestionnaire, aotScore, lastReply>>
serverVars == <<userBadges, req, started, reference>>
ledgerVars == <<totalScore, scoreReq, scoreLog>>

vars == <<scoreVars, serverVars, session, ledgerVars>>

\* a nullable value is the empty set (null) or a singleton
NULL == {}
Some(x) == {x}
ValueOf(s) == CHOOSE x \in s : TRUE

(***************************************************************************)
(* Bounds                                                                  *)
(***************************************************************************)
NumQuestions == 2      \* questions of the AOT reference set that are modelled
MaxResponses == 3      \* rows the user_responses table may hold
NumProcs == 2          \* requests the server handles at the same time
MaxRequests == 2       \* requests received in one run of the badge ledger
MaxParseChunks == 3    \* tokens and fragments an AI text of the parser is made of
MaxTurns == 9          \* responses the user submits in one game session
MaxUpdates == 3        \* POST /api/update-score requests received in one run of the score ledger
MaxAwardTurns == 2     \* turns of a game session whose score requests may fail
MaxZombieTurns == 6    \* responses the user submits in one Thought Zombies session
MaxStarts == 3         \* starts of a server process against the database

Min(a, b) == IF a < b THEN a ELSE b
Max(a, b) == IF a > b THEN a ELSE b

(***************************************************************************)
(* Reference data                                                          *)
(***************************************************************************)
\* ids (serial, in list order) of the seeded AOT questions flagged isReversed
SeededReversed == {1, 4, 5, 8, 9, 10, 12}

aotQuestions == {[id |-> i, isReversed |-> (i \in SeededReversed)] : i \in 1..NumQuestions}

QuestionIds == {q.id : q \in aotQuestions}

\* the body of POST /api/responses is not validated by the server
SubmittedIds == 1..(NumQuestions + 1)
SubmittedValues == {0, 1, 3, 6, 7}

(***************************************************************************)
(* Questionnaire scorer                                                    *)
(***************************************************************************)
isReversedOf(questions, qid) ==
    IF \E q \in questions : q.id = qid
    THEN (CHOOSE q \in questions : q.id = qid).isReversed
    ELSE FALSE

\* a scorer that takes the value as it is
validResponseUnclamped(v) == v

validResponseOf(v) == Min(Max(v, 1), 6)

\* a scorer that forgets the reversal
questionScoreUnreversed(questions, r) == validResponseOf(r.response)

questionScore(questions, r) ==
    IF isReversedOf(questions, r.questionId)
    THEN 7 - validResponseOf(r.response)
    ELSE validResponseOf(r.response)

RECURSIVE totalScoreOf(_, _)
totalScoreOf(responses, questions) ==
    IF responses = <<>> THEN 0
    ELSE questionScore(questions, Head(responses)) + totalScoreOf(Tail(responses), questions)

calculateAOTScore(responses, questions) ==
    LET answeredQuestions == {responses[i].questionId : i \in DOMAIN responses}
        totalQuestions == Cardinality(questions)
    IN IF Cardinality(answeredQuestions) # totalQuestions
       THEN NULL
       ELSE Some(totalScoreOf(responses, questions))

\* a query that keeps the earliest response of each question
RECURSIVE earliestFrom(_, _)
earliestFrom(table, qids) ==
    IF qids = {} THEN <<>>
    ELSE LET q == CHOOSE x \in qids : \A y \in qids : x <= y
             first == CHOOSE i \in DOMAIN table :
                        /\ table[i].questionId = q
                        /\ \A j \in DOMAIN table : table[j].questionId = q => i <= j
         IN <<[questionId |-> q, response |-> table[first].response]>>
                \o earliestFrom(table, qids \ {q})

\* SELECT DISTINCT ON (question_id) ... ORDER BY question_id, created_at DESC
RECURSIVE latestFrom(_, _)
latestFrom(table, qids) ==
    IF qids = {} THEN <<>>
    ELSE LET q == CHOOSE x \in qids : \A y \in qids : x <= y
             last == CHOOSE i \in DOMAIN table :
                        /\ table[i].questionId = q
                        /\ \A j \in DOMAIN table : table[j].questionId = q => j <= i
         IN <<[questionId |-> q, response |-> table[last].response]>>
                \o latestFrom(table, qids \ {q})

latestResponses(table) == latestFrom(table, {table[i].questionId : i \in DOMAIN table})

(***************************************************************************)
(* AI text.  A text is a sequence of lexemes: the literal pieces the       *)
(* server's regular expressions are built from (token heads, brackets,     *)
(* quotes), single digits, white space, and words.  Adjacent lexemes are   *)
(* adjacent characters, so a run of name lexemes is one identifier and a   *)
(* run of digits one number.                                               *)
(***************************************************************************)
QUOTE == "\""
NEWLINE == "\n"
Space == {" ", NEWLINE}                              \* \s
DigitSeq == <<"0", "1", "2", "3", "4", "5", "6", "7", "8", "9">>
Digit == {DigitSeq[i] : i \in DOMAIN DigitSeq}       \* \d
LowerNames == {"reason_giver", "fact_checker", "link_cutter", "hidden_premise_hunter",
               "evidence_expert", "super_thinker", "new_argument",
               "completion", "counter_u", "basic", "clear", "great", "y"}
UpperNames == {"FACT_CHECKER", "Great"}
Name == LowerNames \cup UpperNames                   \* [a-z_] under the i flag
BadgeHeads == {"[badge:", "[BADGE:"}                 \* \[badge: under the i flag
Speakers == {"Qaylee:", "Plato:"}
JsonMembers == {"\"headers\": [\"a\"], \"rows\": [[\"1\"]]"}
OtherLexemes == {"{award_points:", ",", "type:", QUOTE, "{", "}", "]", ":", "{table:",
                 "point!", "junk", "[TOTAL: +", "[total: +", "[Score: +",
                 "[REASONING +", "[ENGAGEMENT +", "[BONUS +"}
Lexemes == Space \cup Digit \cup Name \cup BadgeHeads \cup Speakers \cup JsonMembers
              \cup OtherLexemes
NotNewline == Lexemes \ {NEWLINE}                    \* .
NotQuote == Lexemes \ {QUOTE}                        \* [^"]
NotCloseBrace == Lexemes \ {"}"}                     \* [^}]
NotCloseBracket == Lexemes \ {"]"}                   \* [^\]]

EOT == "<end>"
At(t, i) == IF i \in DOMAIN t THEN t[i] ELSE EOT

\* the index after the longest run of lexemes of class S that starts at i
RunEnd(t, i, S) ==
    CHOOSE j \in i..(Len(t) + 1) :
        /\ \A k \in i..(j - 1) : t[k] \in S
        /\ (j = Len(t) + 1 \/ t[j] \notin S)

\* the index of the first lexeme x at or after i, Len(t) + 1 if there is none
FindFrom(t, i, X) ==
    CHOOSE j \in i..(Len(t) + 1) :
        /\ \A k \in i..(j - 1) : t[k] \notin X
        /\ (j = Len(t) + 1 \/ t[j] \in X)

Sub(t, a, b) == IF a > b THEN <<>> ELSE SubSeq(t, a, b)

\* String.prototype.trim
trim(t) ==
    LET a == RunEnd(t, 1, Space)
        b == CHOOSE j \in 0..Len(t) :
                /\ \A k \in (j + 1)..Len(t) : t[k] \in Space
                /\ (j = 0 \/ t[j] \notin Space)
    IN Sub(t, a, b)

\* parseInt of a run of digits
RECURSIVE parseInt(_)
parseInt(ds) ==
    IF ds = <<>> THEN 0
    ELSE 10 * parseInt(Sub(ds, 1, Len(ds) - 1))
            + ((CHOOSE i \in DOMAIN DigitSeq : DigitSeq[i] = ds[Len(ds)]) - 1)

\* String.prototype.toLowerCase, lexeme by lexeme
lowerOf(x) ==
    CASE x = "FACT_CHECKER" -> "fact_checker"
      [] x = "Great" -> "great"
      [] x = "[BADGE:" -> "[badge:"
      [] x = "[TOTAL: +" -> "[total: +"
      [] x = "[Score: +" -> "[score: +"
      [] x = "[REASONING +" -> "[reasoning +"
      [] x = "[ENGAGEMENT +" -> "[engagement +"
      [] x = "[BONUS +" -> "[bonus +"
      [] x = "Qaylee:" -> "qaylee:"
      [] x = "Plato:" -> "plato:"
      [] OTHER -> x

toLowerCase(t) == [i \in DOMAIN t |-> lowerOf(t[i])]

(***************************************************************************)
(* Regular expressions.  A regular expression is the sequence of its       *)
(* parts; a part matches one lexeme of a class (one), or a run of them     *)
(* (star, plus), and may belong to a capture group.  In every regular      *)
(* expression of the server a repeated class is followed by a lexeme       *)
(* outside the class, so the greedy (or, for .*?\}, the lazy) run is the   *)
(* only way to match and no backtracking is involved.  The i flag is the   *)
(* upper-case lexemes in the classes.                                      *)
(***************************************************************************)
\* the lexemes that a literal matches under the i flag
AnyCase(x) == {y \in Lexemes : lowerOf(y) = lowerOf(x)}

One(S) == [rep |-> "one", set |-> S, group |-> 0]
Star(S) == [rep |-> "star", set |-> S, group |-> 0]
Plus(S) == [rep |-> "plus", set |-> S, group |-> 0]
In(g, part) == [part EXCEPT !.group = g]

\* /\{award_points:\s*(\d+),\s*type:\s*"([^"]+)"\}/
pointsRegex ==
    << One({"{award_points:"}), Star(Space), In(1, Plus(Digit)), One({","}), Star(Space),
       One({"type:"}), Star(Space), One({QUOTE}), In(2, Plus(NotQuote)), One({QUOTE}),
       One({"}"}) >>

\* /\{award_points:\s*(\d+),\s*type:\s*""([^"]+)"\}/
healthPointsRegex ==
    << One({"{award_points:"}), Star(Space), In(1, Plus(Digit)), One({","}), Star(Space),
       One({"type:"}), Star(Space), One({QUOTE}), One({QUOTE}), In(2, Plus(NotQuote)),
       One({QUOTE}), One({"}"}) >>

\* /\[badge:\s*([a-z_]+)\]/i
badgeRegex == << One(AnyCase("[badge:")), Star(Space), In(1, Plus(Name)), One({"]"}) >>

\* /\{table:\s*({[^}]+})\}/
tableRegex ==
    << One({"{table:"}), Star(Space), In(1, One({"{"})), In(1, Plus(NotCloseBrace)),
       In(1, One({"}"})), One({"}"}) >>

\* /\{award_points:.*?\}/
lazyPointsRegex == << One({"{award_points:"}), Star(NotNewline \ {"}"}), One({"}"}) >>

\* /\{table:.*?\}/
lazyTableRegex == << One({"{table:"}), Star(NotNewline \ {"}"}), One({"}"}) >>

\* /\[TOTAL: \+(\d+)\]/i
totalScoreRegex == << One(AnyCase("[TOTAL: +")), In(1, Plus(Digit)), One({"]"}) >>

\* /\[Score: \+(\d+)\]/i
oldScoreRegex == << One(AnyCase("[Score: +")), In(1, Plus(Digit)), One({"]"}) >>

\* /\[REASONING \+(\d+):[^\]]*\]/i
reasoningRegex ==
    << One(AnyCase("[REASONING +")), In(1, Plus(Digit)), One({":"}), Star(NotCloseBracket), One({"]"}) >>

\* /\[ENGAGEMENT \+(\d+):[^\]]*\]/i
engagementRegex ==
    << One(AnyCase("[ENGAGEMENT +")), In(1, Plus(Digit)), One({":"}), Star(NotCloseBracket), One({"]"}) >>

\* /\[BONUS \+(\d+):[^\]]*\]/i
bonusRegex ==
    << One(AnyCase("[BONUS +")), In(1, Plus(Digit)), One({":"}), Star(NotCloseBracket), One({"]"}) >>

NoMatch == [ok |-> FALSE, end |-> 0, g1 |-> <<>>, g2 |-> <<>>]

capture(m, g, seg) ==
    IF g = 1 THEN [m EXCEPT !.g1 = @ \o seg]
    ELSE IF g = 2 THEN [m EXCEPT !.g2 = @ \o seg]
    ELSE m

\* the index after what one part matches at i (i itself: nothing matched)
partEnd(t, i, part) ==
    IF part.rep = "one"
    THEN (IF At(t, i) \in part.set THEN i + 1 ELSE i)
    ELSE RunEnd(t, i, part.set)

RECURSIVE matchParts(_, _, _, _, _)
afterPart(re, t, i, k, m, j) ==
    IF j = i /\ re[k].rep # "star"
    THEN NoMatch
    ELSE matchParts(re, t, j, k + 1, capture(m, re[k].group, Sub(t, i, j - 1)))

\* the parts k.. of re matched at index i of t, m being the match so far
matchParts(re, t, i, k, m) ==
    IF k > Len(re)
    THEN [m EXCEPT !.ok = TRUE, !.end = i]
    ELSE afterPart(re, t, i, k, m, partEnd(t, i, re[k]))

\* the match of re that starts at index i of t
regexAt(re, t, i) == matchParts(re, t, i, 1, NoMatch)

\* String.prototype.match without the g flag: the leftmost match
RECURSIVE matchFrom(_, _, _)
firstOf(m, re, t, i) == IF m.ok THEN m ELSE matchFrom(re, t, i + 1)

matchFrom(re, t, i) ==
    IF i > Len(t) THEN NoMatch ELSE firstOf(regexAt(re, t, i), re, t, i)

match(re, t) == matchFrom(re, t, 1)

\* String.prototype.replace(re, '') with the g flag: one left-to-right pass
RECURSIVE replaceFrom(_, _, _)
skipOrKeep(m, re, t, i) ==
    IF m.ok THEN replaceFrom(re, t, m.end)
    ELSE <<t[i]>> \o replaceFrom(re, t, i + 1)

replaceFrom(re, t, i) ==
    IF i > Len(t) THEN <<>> ELSE skipOrKeep(regexAt(re, t, i), re, t, i)

replaceAll(re, t) == replaceFrom(re, t, 1)

(***************************************************************************)
(* Reference data of the badge ledger                                      *)
(***************************************************************************)
\* initializeBadges: the seeded rows of table badges, id = position
badgesList == <<"reason_giver", "fact_checker", "link_cutter",
                "hidden_premise_hunter", "evidence_expert">>

BadgeIds == DOMAIN badgesList

\* db.select().from(badges).where(eq(badges.name, badgeType)).limit(1)
\* a badge name is the run of lexemes the regular expression captured
selectBadge(badgeType) ==
    IF Len(badgeType) = 1 /\ \E i \in BadgeIds : badgesList[i] = badgeType[1]
    THEN Some(CHOOSE i \in BadgeIds : badgesList[i] = badgeType[1])
    ELSE NULL

(***************************************************************************)
(* Annotation parser: the pure parts of the dialogue handlers              *)
(***************************************************************************)
\* points = {amount: parseInt(pointsMatch[1]), type: pointsMatch[2].trim()}
pointsOf(pointsMatch) ==
    IF pointsMatch.ok
    THEN Some([amount |-> parseInt(pointsMatch.g1), type |-> trim(pointsMatch.g2)])
    ELSE NULL

\* POST /api/dialogue: points
dialoguePoints(aiResponse) == pointsOf(match(pointsRegex, aiResponse))

\* if (badgeMatch && badgeMatch[1]) badgeType = badgeMatch[1].trim()
capturedBadge(badgeMatch) ==
    IF badgeMatch.ok /\ badgeMatch.g1 # <<>>
    THEN Some(trim(badgeMatch.g1))
    ELSE NULL

\* the last match of a regular expression instead of the first
RECURSIVE matchBack(_, _, _)
lastOf(m, re, t, i) == IF m.ok THEN m ELSE matchBack(re, t, i - 1)

matchBack(re, t, i) ==
    IF i < 1 THEN NoMatch ELSE lastOf(regexAt(re, t, i), re, t, i)

\* an extraction that honours the last badge token
badgeTypeOfLast(aiResponse) ==
    capturedBadge(matchBack(badgeRegex, aiResponse, Len(aiResponse)))

\* POST /api/dialogue and POST /api/thought-zombies/dialogue: badgeType
badgeTypeOf(aiResponse) == capturedBadge(match(badgeRegex, aiResponse))

\* a cleaning that forgets the trim
cleanedResponseUntrimmed(aiResponse) ==
    replaceAll(badgeRegex, replaceAll(pointsRegex, aiResponse))

\* POST /api/dialogue: cleanedResponse
cleanedResponse(aiResponse) ==
    trim(replaceAll(badgeRegex, replaceAll(pointsRegex, aiResponse)))

amountOrZero(points) == IF points = NULL THEN 0 ELSE ValueOf(points).amount

\* POST /api/dialogue and POST /api/health-nut/dialogue: isComplete
isCompleteOf(historyLength, points) ==
    historyLength >= 8 /\ amountOrZero(points) >= 30

\* POST /api/health-nut/dialogue: points
healthNutPoints(aiResponse) == pointsOf(match(healthPointsRegex, aiResponse))

\* JSON.parse of the text between the braces of the captured object literal:
\* null when it throws
jsonMembers(inner) ==
    IF inner = <<>> \/ (Len(inner) = 1 /\ inner[1] \in JsonMembers)
    THEN Some(inner)
    ELSE NULL

jsonParse(obj) == jsonMembers(trim(Sub(obj, 2, Len(obj) - 1)))

\* a handler that hands on the captured text without parsing it
tableOfUnparsed(tableMatch) == IF tableMatch.ok THEN Some(tableMatch.g1) ELSE NULL

tableOf(tableMatch) == IF tableMatch.ok THEN jsonParse(tableMatch.g1) ELSE NULL

\* POST /api/health-nut/dialogue: table
healthNutTable(aiResponse) == tableOf(match(tableRegex, aiResponse))

\* aiResponse.matchAll(/(Qaylee|Plato):\s*([\s\S]*?)(?=(?:Qaylee:|Plato:|$))/g)
RECURSIVE speakerSegments(_, _)
segmentAt(t, s, c, n) ==
    <<[speaker |-> t[s], content |-> Sub(t, c, n - 1)]>> \o speakerSegments(t, n)

contentFrom(t, s, c) == segmentAt(t, s, c, FindFrom(t, c, Speakers))

speakerFrom(t, s) ==
    IF s > Len(t) THEN <<>> ELSE contentFrom(t, s, RunEnd(t, s + 1, Space))

speakerSegments(t, i) == speakerFrom(t, FindFrom(t, i, Speakers))

\* POST /api/health-nut/dialogue: cleanContent
cleanContent(content) ==
    replaceAll(lazyTableRegex, replaceAll(lazyPointsRegex, trim(content)))

formatMessage(m, table) ==
    [speaker |-> lowerOf(m.speaker),
     content |-> cleanContent(m.content),
     table |-> IF lowerOf(m.speaker) = "plato:" THEN table ELSE NULL]

formatAll(matches, table) == [k \in DOMAIN matches |-> formatMessage(matches[k], table)]

\* POST /api/health-nut/dialogue: formattedMessages
formattedMessages(aiResponse, table) == formatAll(speakerSegments(aiResponse, 1), table)

amountOf(m) == IF m.ok THEN parseInt(m.g1) ELSE 0

\* an aggregation that trusts the legacy token before the categories
scoreFromLegacyFirst(totalMatch, reasoningMatch, engagementMatch, bonusMatch, oldMatch) ==
    IF totalMatch.ok THEN parseInt(totalMatch.g1)
    ELSE IF oldMatch.ok THEN parseInt(oldMatch.g1)
         ELSE amountOf(reasoningMatch) + amountOf(engagementMatch) + amountOf(bonusMatch)

scoreFrom(totalMatch, reasoningMatch, engagementMatch, bonusMatch, oldMatch) ==
    IF totalMatch.ok THEN parseInt(totalMatch.g1)
    ELSE IF reasoningMatch.ok \/ engagementMatch.ok \/ bonusMatch.ok
         THEN amountOf(reasoningMatch) + amountOf(engagementMatch) + amountOf(bonusMatch)
         ELSE IF oldMatch.ok THEN parseInt(oldMatch.g1)
              ELSE 0

\* POST /api/thought-zombies/dialogue: score
zombiesScore(aiResponse) ==
    scoreFrom(match(totalScoreRegex, aiResponse),
              match(reasoningRegex, aiResponse),
              match(engagementRegex, aiResponse),
              match(bonusRegex, aiResponse),
              match(oldScoreRegex, aiResponse))

\* client badge service: Object.keys(BADGE_INFO)
BADGE_INFO == {"reason_giver", "fact_checker", "link_cutter",
               "hidden_premise_hunter", "evidence_expert"}

knownBadgeType(badgeType) ==
    IF Len(badgeType) = 1 /\ badgeType[1] \in BADGE_INFO THEN Some(badgeType) ELSE NULL

lowerCasedBadge(m) ==
    IF m.ok /\ m.g1 # <<>> THEN knownBadgeType(toLowerCase(m.g1)) ELSE NULL

\* client badge service: extractBadgeAward
extractBadgeAward(text) == lowerCasedBadge(match(badgeRegex, text))

(***************************************************************************)
(* The AI texts the generative backend returns in the model                *)
(***************************************************************************)
RECURSIVE TextsOf(_, _)
TextsOf(chunks, n) ==
    IF n = 0 THEN {<<>>}
    ELSE LET shorter == TextsOf(chunks, n - 1)
         IN shorter \cup {s \o c : s \in shorter, c \in chunks}

\* {award_points: N, type: "label"} with single spaces where \s* allows them
PointToken(digits, label) ==
    <<"{award_points:", " ">> \o digits \o <<",", " ", "type:", " ", QUOTE, label, QUOTE, "}">>
\* the same token without optional white space
PointTokenTight(digits, label) ==
    <<"{award_points:">> \o digits \o <<",", "type:", QUOTE, label, QUOTE, "}">>
\* [badge: name]
BadgeToken(head, name) == <<head, " ", name, "]">>
FreeText == <<" ", "Great", " ", "point!", " ">>

\* the AI texts of the badge ledger: known badges, a known badge in upper
\* case, an unknown badge before a known one, two known badges
LedgerTexts ==
    { BadgeToken("[badge:", "reason_giver"),
      BadgeToken("[badge:", "fact_checker"),
      BadgeToken("[BADGE:", "FACT_CHECKER"),
      BadgeToken("[badge:", "super_thinker") \o BadgeToken("[badge:", "reason_giver"),
      BadgeToken("[badge:", "reason_giver") \o BadgeToken("[badge:", "fact_checker") }

\* the badgeType of the body of POST /api/award-badge (<<>>: none given)
AwardBodies == {<<>>, <<"reason_giver">>, <<"fact_checker">>, <<"super_thinker">>}

DialogueChunks ==
    { PointToken(<<"5">>, "new_argument"),
      PointTokenTight(<<"3", "0">>, "completion"),
      BadgeToken("[badge:", "reason_giver"),
      <<"[BADGE:", "FACT_CHECKER", "]">>,
      BadgeToken("[badge:", "super_thinker"),
      FreeText,
      <<"{award_points:", " ", "7", ",", " ", "type:", " ", QUOTE, "counter_u", QUOTE>>,
      <<"}">>,
      <<"[badge:", " ">>,
      <<"y", "]">> }

HealthNutChunks ==
    { <<"Qaylee:", " ">>,
      <<"Plato:", " ">>,
      PointToken(<<"3">>, "basic"),
      <<"{award_points:", " ", "4", ",", " ", "type:", " ", QUOTE, QUOTE, "clear", QUOTE, "}">>,
      <<"{award_points:", NEWLINE, "5", ",", " ", "type:", " ", QUOTE, "basic", QUOTE, "}">>,
      <<"{table:", " ", "{", "\"headers\": [\"a\"], \"rows\": [[\"1\"]]", "}", "}">>,
      <<"{table:", " ", "{", NEWLINE, "\"headers\": [\"a\"], \"rows\": [[\"1\"]]", "}", "}">>,
      <<"{table:", " ", "{", "junk", "}", "}">>,
      FreeText }

ZombiesChunks ==
    { <<"[TOTAL: +", "1", "2", "]">>,
      <<"[total: +", "9", "]">>,
      <<"[REASONING +", "1", "0", ":", " ", "clear", "]">>,
      <<"[ENGAGEMENT +", "5", ":", "]">>,
      <<"[BONUS +", "3", ":", " ", "great", "]">>,
      <<"[Score: +", "7", "]">>,
      BadgeToken("[BADGE:", "FACT_CHECKER"),
      FreeText,
      <<"]">> }

DialogueTexts == TextsOf(DialogueChunks, MaxParseChunks)
HealthNutParseTexts == TextsOf(HealthNutChunks, MaxParseChunks)
ZombiesTexts == TextsOf(ZombiesChunks, MaxParseChunks)

(***************************************************************************)
(* Requests                                                                *)
(***************************************************************************)
Users == {1}
Procs == 1..NumProcs

Idle == [kind |-> "none", pc |-> "idle", user |-> 0, text |-> <<>>,
         badgeType |-> NULL, badgeId |-> NULL, points |-> NULL, historyLength |-> 0,
         badgeLog |-> "none", ownedAtStart |-> 0, inserted |-> <<>>,
         reply |-> [status |-> 0]]

Free(p) == req[p].pc \in {"idle", "done"}
InFlight(p) == ~Free(p)

\* a run of the server: how many requests it receives, whether they overlap,
\* and what the AI backend and the clients may send
Admit(p, c) ==
    /\ Free(p)
    /\ started < c.limit
    /\ c.serial => \A q \in Procs \ {p} : Free(q)

\* a query that never finds a row
existingBadgeNone(u, b) == 0

\* the rows of user_badges of one user and badge
existingBadge(u, b) == userBadges[<<u, b>>]

\* db.insert(userBadges).values({userId, badgeId, gameType})
insertUserBadge(u, b) == [userBadges EXCEPT ![<<u, b>>] = @ + 1]

\* a slot of POST /api/update-score: the body's points, the total the handler
\* read (currentUser.totalScore), the amount it adds and its reply
NoUpdate == [pc |-> "idle", user |-> 0, points |-> 0, current |-> 0,
             safePointsToAdd |-> 0, reply |-> [status |-> 0]]

(***************************************************************************)
(* Seeding of the reference tables when a server process starts            *)
(***************************************************************************)
\* a process that is not initializing
NotStarted == [questions |-> "idle", aotQuestionsList |-> {},
               badges |-> "idle", badgesList |-> {}]

\* an empty database and no server process
Unseeded == [badges |-> [b \in BadgeIds |-> 0],
             aotQuestions |-> [q \in 1..NumQuestions |-> 0],
             starts |-> 0,
             run |-> [p \in Procs |-> NotStarted]]

\* Promise.all([initializeQuestions(), initializeBadges()]).catch(console.error)
ServerStart(p) ==
    /\ reference.starts < MaxStarts
    /\ reference.run[p].questions \in {"idle", "done"}
    /\ reference.run[p].badges \in {"idle", "done"}
    /\ reference' = [reference EXCEPT !.starts = @ + 1,
                                      !.run[p] = [NotStarted EXCEPT !.questions = "select",
                                                                    !.badges = "select"]]
    /\ UNCHANGED <<userBadges, req, started, scoreVars, session, ledgerVars>>

\* existingAOTQuestions.length === 0, existingBadges.length === 0
noRows(table) == \A k \in DOMAIN table : table[k] = 0

\* initializeQuestions: the select on aot_questions and the check for no rows
questionsSelected(run) ==
    IF noRows(reference.aotQuestions)
    THEN [run EXCEPT !.questions = "insert", !.aotQuestionsList = 1..NumQuestions]
    ELSE [run EXCEPT !.questions = "done"]

SelectAOTQuestions(p) ==
    /\ reference.run[p].questions = "select"
    /\ reference' = [reference EXCEPT !.run[p] = questionsSelected(@)]
    /\ UNCHANGED <<userBadges, req, started, scoreVars, session, ledgerVars>>

\* one insert of Promise.all(aotQuestionsList.map(q => db.insert(aotQuestions).values(q)))
questionInserted(run, q) ==
    [run EXCEPT !.aotQuestionsList = @ \ {q},
                !.questions = IF run.aotQuestionsList = {q} THEN "done" ELSE "insert"]

InsertAOTQuestion(p) ==
    /\ reference.run[p].questions = "insert"
    /\ \E q \in reference.run[p].aotQuestionsList :
          reference' = [reference EXCEPT !.aotQuestions[q] = @ + 1,
                                         !.run[p] = questionInserted(@, q)]
    /\ UNCHANGED <<userBadges, req, started, scoreVars, session, ledgerVars>>

\* initializeBadges: the select on badges and the check for no rows
badgesSelected(run) ==
    IF noRows(reference.badges)
    THEN [run EXCEPT !.badges = "insert", !.badgesList = BadgeIds]
    ELSE [run EXCEPT !.badges = "done"]

SelectBadges(p) ==
    /\ reference.run[p].badges = "select"
    /\ reference' = [reference EXCEPT !.run[p] = badgesSelected(@)]
    /\ UNCHANGED <<userBadges, req, started, scoreVars, session, ledgerVars>>

\* one insert of Promise.all(badgesList.map(badge => db.insert(badges).values(badge))):
\* badges.name is unique, an insert of a name the table holds throws, the
\* error is caught and logged, the inserts already sent go on
badgeInserted(run, b) ==
    [run EXCEPT !.badgesList = @ \ {b},
                !.badges = IF run.badgesList = {b} THEN "done" ELSE "insert"]

InsertBadge(p) ==
    /\ reference.run[p].badges = "insert"
    /\ \E b \in reference.run[p].badgesList :
          reference' = [reference EXCEPT !.badges[b] = IF @ = 0 THEN 1 ELSE @,
                                         !.run[p] = badgeInserted(@, b)]
    /\ UNCHANGED <<userBadges, req, started, scoreVars, session, ledgerVars>>

\* server processes start, also while another one is initializing
NextSeed ==
    \/ \E p \in Procs : ServerStart(p)
    \/ \E p \in Procs : SelectAOTQuestions(p)
    \/ \E p \in Procs : InsertAOTQuestion(p)
    \/ \E p \in Procs : SelectBadges(p)
    \/ \E p \in Procs : InsertBadge(p)

(***************************************************************************)
(* Questionnaire endpoints                                                 *)
(***************************************************************************)
ScoreInit ==
    /\ userResponses = <<>>
    /\ hasCompletedQuestionnaire = FALSE
    /\ aotScore = NULL
    /\ lastReply = [op |-> "none"]

ServerInit ==
    /\ userBadges = [k \in Users \X BadgeIds |-> 0]
    /\ req = [p \in Procs |-> Idle]
    /\ started = 0
    /\ reference = Unseeded

\* no game component is mounted
NoSession == [game |-> "none", dialogue |-> 0, auraPoints |-> 0, isSubmitting |-> FALSE, pending |-> FALSE,
              isComplete |-> FALSE, historyLength |-> 0, reqNo |-> 0,
              turns |-> 0, earned |-> 0, reported |-> FALSE,
              toPost |-> <<>>, posted |-> FALSE, sent |-> 0,
              currentIndex |-> 0, responses |-> [q \in 1..NumQuestions |-> 0],
              inFlight |-> <<>>, completing |-> FALSE,
              gameStage |-> "intro", nextStage |-> "intro", phase |-> "none",
              totalScore |-> 0, handlerTotal |-> 0, earnedBadges |-> {}]

\* users.total_score defaults to 0; no score request yet
LedgerInit ==
    /\ totalScore = 0
    /\ scoreReq = [p \in Procs |-> NoUpdate]
    /\ scoreLog = [updates |-> 0, requested |-> 0, negatives |-> 0]

Init == ScoreInit /\ ServerInit /\ LedgerInit /\ session = NoSession

\* POST /api/responses
\* a handler that stores the row before it looks at the session
responsePostedLate(authenticated, questionId, response) ==
    /\ Len(userResponses) < MaxResponses
    /\ UNCHANGED <<hasCompletedQuestionnaire, aotScore>>
    /\ userResponses' = Append(userResponses,
                               [questionId |-> questionId, response |-> response])
    /\ lastReply' = [op |-> "responses", status |-> IF authenticated THEN 200 ELSE 401]

responsePosted(authenticated, questionId, response) ==
    /\ Len(userResponses) < MaxResponses
    /\ UNCHANGED <<hasCompletedQuestionnaire, aotScore>>
    /\ IF ~authenticated
       THEN /\ lastReply' = [op |-> "responses", status |-> 401]
            /\ UNCHANGED userResponses
       ELSE /\ userResponses' = Append(userResponses,
                                       [questionId |-> questionId, response |-> response])
            /\ lastReply' = [op |-> "responses", status |-> 200]

PostResponse(authenticated, questionId, response) ==
    /\ responsePosted(authenticated, questionId, response)
    /\ UNCHANGED <<serverVars, session, ledgerVars>>

\* the reply of POST /api/complete-questionnaire on the latest responses
completionReply(latest, score) ==
    IF score = NULL
    THEN [op |-> "complete", status |-> 400,
          missingCount |-> Cardinality(aotQuestions) - Len(latest), latest |-> latest]
    ELSE [op |-> "complete", status |-> 200, aotScore |-> score, latest |-> latest]

\* a handler that clears the user's score when the questionnaire is incomplete
completedOrCleared(reply) ==
    /\ lastReply' = reply
    /\ IF reply.status = 200
       THEN hasCompletedQuestionnaire' = TRUE /\ aotScore' = reply.aotScore
       ELSE hasCompletedQuestionnaire' = FALSE /\ aotScore' = NULL

completed(reply) ==
    /\ lastReply' = reply
    /\ IF reply.status = 200
       THEN hasCompletedQuestionnaire' = TRUE /\ aotScore' = reply.aotScore
       ELSE UNCHANGED <<hasCompletedQuestionnaire, aotScore>>

\* POST /api/complete-questionnaire
completionPosted(authenticated) ==
    /\ UNCHANGED userResponses
    /\ IF ~authenticated
       THEN /\ lastReply' = [op |-> "complete", status |-> 401]
            /\ UNCHANGED <<hasCompletedQuestionnaire, aotScore>>
       ELSE completed(completionReply(latestResponses(userResponses),
                                      calculateAOTScore(latestResponses(userResponses),
                                                        aotQuestions)))

CompleteQuestionnaire(authenticated) ==
    /\ completionPosted(authenticated)
    /\ UNCHANGED <<serverVars, session, ledgerVars>>

(***************************************************************************)
(* The questionnaire wizard of the client (QuestionnaireWizard)            *)
(***************************************************************************)
\* the Likert values the user picks
WizardValues == {1, 6}

\* the wizard is mounted with the questions of GET /api/questions
OpenWizard ==
    /\ session.game = "none"
    /\ session' = [NoSession EXCEPT !.game = "wizard", !.currentIndex = 1]
    /\ UNCHANGED <<scoreVars, serverVars, ledgerVars>>

\* the radio's onChange: setResponses and submitResponse.mutate, not awaited
WizardSelect(value) ==
    /\ session.game = "wizard" /\ ~session.isComplete
    /\ session.responses[session.currentIndex] # value
    /\ Len(userResponses) + Len(session.inFlight) < MaxResponses
    /\ session' = [session EXCEPT !.responses[session.currentIndex] = value,
                                  !.inFlight = Append(@, [questionId |-> session.currentIndex,
                                                          response |-> value])]
    /\ UNCHANGED <<scoreVars, serverVars, ledgerVars>>

\* handleNext, shown once the current question has a response: the next
\* question, or on the last one completeQuestionnaire.mutateAsync()
WizardNext ==
    /\ session.game = "wizard" /\ ~session.isComplete /\ ~session.completing
    /\ session.responses[session.currentIndex] # 0
    /\ session' = IF session.currentIndex = NumQuestions
                  THEN [session EXCEPT !.completing = TRUE]
                  ELSE [session EXCEPT !.currentIndex = @ + 1]
    /\ UNCHANGED <<scoreVars, serverVars, ledgerVars>>

\* handleBack
WizardBack ==
    /\ session.game = "wizard" /\ ~session.isComplete /\ ~session.completing
    /\ session.currentIndex > 1
    /\ session' = [session EXCEPT !.currentIndex = @ - 1]
    /\ UNCHANGED <<scoreVars, serverVars, ledgerVars>>

\* one of the POST /api/responses requests on the way reaches the server
ResponseArrives(i) ==
    /\ session.game = "wizard"
    /\ responsePosted(TRUE, session.inFlight[i].questionId, session.inFlight[i].response)
    /\ session' = [session EXCEPT !.inFlight =
                        SubSeq(@, 1, i - 1) \o SubSeq(@, i + 1, Len(@))]
    /\ UNCHANGED <<serverVars, ledgerVars>>

\* POST /api/complete-questionnaire reaches the server; onSuccess sets isCompleted
CompletionArrives ==
    /\ session.game = "wizard" /\ session.completing
    /\ completionPosted(TRUE)
    /\ session' = [session EXCEPT !.completing = FALSE,
                                  !.isComplete = (lastReply'.status = 200)]
    /\ UNCHANGED <<serverVars, ledgerVars>>

ScoreNext ==
    \/ \E a \in BOOLEAN, q \in SubmittedIds, v \in SubmittedValues : PostResponse(a, q, v)
    \/ \E a \in BOOLEAN : CompleteQuestionnaire(a)

SpecScore == Init /\ [][ScoreNext]_vars

\* the wizard against the questionnaire endpoints; its requests reach the
\* server in any order
NextWizard ==
    \/ OpenWizard
    \/ \E value \in WizardValues : WizardSelect(value)
    \/ WizardNext
    \/ WizardBack
    \/ \E i \in DOMAIN session.inFlight : ResponseArrives(i)
    \/ CompletionArrives

SpecWizard == Init /\ [][NextWizard]_vars

(***************************************************************************)
(* POST /api/dialogue                                                      *)
(***************************************************************************)
dialogueReply(r, badge) ==
    [status |-> 200,
     response |-> cleanedResponse(r.text),
     points |-> r.points,
     badge |-> badge,
     isComplete |-> isCompleteOf(r.historyLength, r.points)]

\* const badgeResults = await db.select().from(badges).where(eq(badges.name, badgeType))
withBadge(r, badgeType) ==
    [r EXCEPT !.badgeType = badgeType,
              !.badgeId = IF badgeType = NULL THEN NULL ELSE selectBadge(ValueOf(badgeType))]

\* known badge: go on to the query on user_badges; else log and reply
afterLookup(r) ==
    IF r.badgeId # NULL
    THEN [r EXCEPT !.pc = "check"]
    ELSE [r EXCEPT !.pc = "done",
                   !.badgeLog = IF r.badgeType = NULL THEN "none" ELSE "unknown",
                   !.reply = dialogueReply(r, NULL)]

\* a handler that goes on with an empty text when the AI call throws
dialogueBeginLenient(u, authenticated, aiFails, aiResponse, historyLength) ==
    IF ~authenticated
    THEN [Idle EXCEPT !.kind = "dialogue", !.pc = "done", !.user = u,
                      !.reply = [status |-> 401]]
    ELSE afterLookup(withBadge([Idle EXCEPT !.kind = "dialogue", !.user = u,
                                            !.text = aiResponse,
                                            !.points = dialoguePoints(aiResponse),
                                            !.historyLength = historyLength],
                               badgeTypeOf(aiResponse)))

dialogueBegin(u, authenticated, aiFails, aiResponse, historyLength) ==
    IF ~authenticated
    THEN [Idle EXCEPT !.kind = "dialogue", !.pc = "done", !.user = u,
                      !.reply = [status |-> 401]]
    ELSE IF aiFails
    THEN [Idle EXCEPT !.kind = "dialogue", !.pc = "done", !.user = u,
                      !.reply = [status |-> 500]]
    ELSE afterLookup(withBadge([Idle EXCEPT !.kind = "dialogue", !.user = u,
                                            !.text = aiResponse,
                                            !.points = dialoguePoints(aiResponse),
                                            !.historyLength = historyLength],
                               badgeTypeOf(aiResponse)))

\* up to the first query on user_badges: authentication, the AI call, the
\* extraction of points and badge, the lookup in table badges
DialogueStart(p, c, u, authenticated, aiFails, aiResponse, historyLength) ==
    /\ Admit(p, c)
    /\ started' = started + 1
    /\ req' = [req EXCEPT ![p] = dialogueBegin(u, authenticated, aiFails, aiResponse,
                                               historyLength)]
    /\ UNCHANGED <<reference, userBadges, scoreVars, session, ledgerVars>>

\* the query "does the user already have this badge"
DialogueCheck(p) ==
    /\ req[p].kind = "dialogue" /\ req[p].pc = "check"
    /\ UNCHANGED <<reference, userBadges, started, scoreVars, session, ledgerVars>>
    /\ IF existingBadge(req[p].user, ValueOf(req[p].badgeId)) = 0
       THEN req' = [req EXCEPT ![p].pc = "insert"]
       ELSE req' = [req EXCEPT ![p].pc = "done", ![p].badgeLog = "already",
                               ![p].reply = dialogueReply(req[p], NULL)]

\* the insert into user_badges and the reply
DialogueInsert(p) ==
    /\ req[p].kind = "dialogue" /\ req[p].pc = "insert"
    /\ userBadges' = insertUserBadge(req[p].user, ValueOf(req[p].badgeId))
    /\ req' = [req EXCEPT ![p].pc = "done", ![p].badgeLog = "awarded",
                          ![p].inserted = Append(@, ValueOf(req[p].badgeId)),
                          ![p].reply = dialogueReply(req[p], req[p].badgeId)]
    /\ UNCHANGED <<reference, started, scoreVars, session, ledgerVars>>

(***************************************************************************)
(* POST /api/award-badge                                                   *)
(***************************************************************************)
\* an endpoint that answers 200 to an unknown badge name
awardBeginLenient(r, u, authenticated, badgeType) ==
    IF ~authenticated
    THEN [r EXCEPT !.pc = "done", !.reply = [status |-> 401]]
    ELSE IF badgeType = <<>>
    THEN [r EXCEPT !.pc = "done", !.reply = [status |-> 400]]
    ELSE IF selectBadge(badgeType) = NULL
    THEN [r EXCEPT !.pc = "done", !.badgeType = Some(badgeType), !.badgeLog = "unknown",
                   !.reply = [status |-> 200, error |-> "not found"]]
    ELSE [r EXCEPT !.pc = "check", !.badgeType = Some(badgeType),
                   !.badgeId = selectBadge(badgeType),
                   !.ownedAtStart = userBadges[<<u, ValueOf(selectBadge(badgeType))>>]]

\* up to the first query on user_badges: authentication, the body check and
\* the lookup in table badges; r is the request record so far
awardBegin(r, u, authenticated, badgeType) ==
    IF ~authenticated
    THEN [r EXCEPT !.pc = "done", !.reply = [status |-> 401]]
    ELSE IF badgeType = <<>>
    THEN [r EXCEPT !.pc = "done", !.reply = [status |-> 400]]
    ELSE LET badgeResults == selectBadge(badgeType)
         IN IF badgeResults = NULL
            THEN [r EXCEPT !.pc = "done", !.badgeType = Some(badgeType),
                           !.badgeLog = "unknown",
                           !.reply = [status |-> 404, error |-> "not found"]]
            ELSE [r EXCEPT !.pc = "check", !.badgeType = Some(badgeType),
                           !.badgeId = badgeResults,
                           !.ownedAtStart = userBadges[<<u, ValueOf(badgeResults)>>]]

AwardStart(p, c, u, authenticated, badgeType) ==
    /\ Admit(p, c)
    /\ started' = started + 1
    /\ req' = [req EXCEPT ![p] = awardBegin([Idle EXCEPT !.kind = "award", !.user = u],
                                            u, authenticated, badgeType)]
    /\ UNCHANGED <<reference, userBadges, scoreVars, session, ledgerVars>>

AwardCheck(p) ==
    /\ req[p].kind \in {"award", "zombies"} /\ req[p].pc = "check"
    /\ UNCHANGED <<reference, userBadges, started, scoreVars, session, ledgerVars>>
    /\ IF existingBadge(req[p].user, ValueOf(req[p].badgeId)) > 0
       THEN req' = [req EXCEPT ![p].pc = "done", ![p].badgeLog = "already",
                               ![p].reply = [status |-> 200, message |-> "Badge already awarded",
                                             badge |-> req[p].badgeId]]
       ELSE req' = [req EXCEPT ![p].pc = "insert"]

AwardInsert(p) ==
    /\ req[p].kind \in {"award", "zombies"} /\ req[p].pc = "insert"
    /\ userBadges' = insertUserBadge(req[p].user, ValueOf(req[p].badgeId))
    /\ req' = [req EXCEPT ![p].pc = "done", ![p].badgeLog = "awarded",
                          ![p].inserted = Append(@, ValueOf(req[p].badgeId)),
                          ![p].reply = [status |-> 200, message |-> "Badge awarded successfully",
                                        badge |-> req[p].badgeId]]
    /\ UNCHANGED <<reference, started, scoreVars, session, ledgerVars>>

(***************************************************************************)
(* POST /api/health-nut/dialogue                                           *)
(***************************************************************************)
healthNutReply(aiResponse, historyLength, points) ==
    [status |-> 200,
     messages |-> formattedMessages(aiResponse, healthNutTable(aiResponse)),
     points |-> points,
     isComplete |-> isCompleteOf(historyLength, points)]

healthNutHandled(r, points) ==
    [r EXCEPT !.points = points, !.reply = healthNutReply(r.text, r.historyLength, points)]

healthNutBegin(u, authenticated, aiFails, aiResponse, historyLength) ==
    IF ~authenticated
    THEN [Idle EXCEPT !.kind = "healthNut", !.pc = "done", !.user = u,
                      !.reply = [status |-> 401]]
    ELSE IF aiFails
    THEN [Idle EXCEPT !.kind = "healthNut", !.pc = "done", !.user = u,
                      !.reply = [status |-> 500]]
    ELSE healthNutHandled([Idle EXCEPT !.kind = "healthNut", !.pc = "done", !.user = u,
                                       !.text = aiResponse,
                                       !.historyLength = historyLength],
                          healthNutPoints(aiResponse))

HealthNutDialogue(p, c, u, authenticated, aiFails, aiResponse, historyLength) ==
    /\ Admit(p, c)
    /\ started' = started + 1
    /\ req' = [req EXCEPT ![p] = healthNutBegin(u, authenticated, aiFails, aiResponse,
                                                historyLength)]
    /\ UNCHANGED <<reference, userBadges, scoreVars, session, ledgerVars>>

(***************************************************************************)
(* POST /api/thought-zombies/dialogue and the client's handling of the     *)
(* badge of its reply (ThoughtZombiesGame handleSubmitResponse)            *)
(***************************************************************************)
zombiesReply(aiResponse, badgeType) ==
    [status |-> 200,
     message |-> aiResponse,
     score |-> zombiesScore(aiResponse),
     badge |-> IF badgeType = NULL THEN NULL ELSE selectBadge(ValueOf(badgeType))]

zombiesBegin(u, authenticated, aiFails, aiResponse) ==
    IF ~authenticated
    THEN [Idle EXCEPT !.kind = "zombies", !.pc = "client", !.user = u,
                      !.reply = [status |-> 401]]
    ELSE IF aiFails
    THEN [Idle EXCEPT !.kind = "zombies", !.pc = "client", !.user = u,
                      !.reply = [status |-> 500]]
    ELSE [Idle EXCEPT !.kind = "zombies", !.pc = "client", !.user = u,
                      !.text = aiResponse,
                      !.reply = zombiesReply(aiResponse, badgeTypeOf(aiResponse))]

ZombiesDialogue(p, c, u, authenticated, aiFails, aiResponse) ==
    /\ Admit(p, c)
    /\ started' = started + 1
    /\ req' = [req EXCEPT ![p] = zombiesBegin(u, authenticated, aiFails, aiResponse)]
    /\ UNCHANGED <<reference, userBadges, scoreVars, session, ledgerVars>>

\* the client reads the reply; a badge named in the text that the server did
\* not return is awarded through POST /api/award-badge
clientBadge(r, badgeType) ==
    IF badgeType = NULL
    THEN [r EXCEPT !.pc = "done"]
    ELSE awardBegin(r, r.user, TRUE, ValueOf(badgeType))

\* const badgeType = badgeFromResponse ? null : extractBadgeAward(message)
clientHandled(r) ==
    IF r.reply.status # 200
    THEN [r EXCEPT !.pc = "done"]
    ELSE clientBadge(r, IF r.reply.badge # NULL THEN NULL
                        ELSE extractBadgeAward(r.reply.message))

ZombiesClient(p) ==
    /\ req[p].kind = "zombies" /\ req[p].pc = "client"
    /\ req' = [req EXCEPT ![p] = clientHandled(req[p])]
    /\ UNCHANGED <<reference, userBadges, started, scoreVars, session, ledgerVars>>

(***************************************************************************)
(* POST /api/update-score                                                  *)
(***************************************************************************)
\* the body's points: any integer
ScoreAmounts == {-2, -1, 0, 1, 2}

\* an update that stores the total read at the start plus the amount
updatedTotalFromRead(total, r) == r.current + r.safePointsToAdd

\* .set({ totalScore: sql`${users.totalScore} + ${safePointsToAdd}` })
updatedTotal(total, r) == total + r.safePointsToAdd

\* authentication, the select of the current user and the clamp
updateBegin(u, authenticated, points) ==
    IF ~authenticated
    THEN [NoUpdate EXCEPT !.pc = "done", !.user = u, !.points = points,
                          !.reply = [status |-> 401]]
    ELSE [NoUpdate EXCEPT !.pc = "update", !.user = u, !.points = points,
                          !.current = totalScore,
                          !.safePointsToAdd = Max(-totalScore, points)]

\* the slot takes a request if it is free and the run admits one more
UpdateCallers(p, limit) ==
    IF scoreReq[p].pc \in {"idle", "done"} /\ scoreLog.updates < limit THEN Users ELSE {}

updateReceived(p, u, authenticated, points) ==
    /\ scoreReq[p].pc \in {"idle", "done"}
    /\ scoreReq' = [scoreReq EXCEPT ![p] = updateBegin(u, authenticated, points)]
    /\ scoreLog' = [scoreLog EXCEPT !.updates = @ + 1]
    /\ UNCHANGED totalScore

UpdateScoreStart(p, u, authenticated, points) ==
    /\ updateReceived(p, u, authenticated, points)
    /\ UNCHANGED <<scoreVars, serverVars, session>>

\* the update statement, the leaderboard count (only for a positive total)
\* and the reply; a failure of the count is answered 500 after the update
updateReply(newTotalScore, rankFails) ==
    IF rankFails /\ newTotalScore > 0
    THEN [status |-> 500]
    ELSE [status |-> 200, newTotalScore |-> newTotalScore]

UpdateScoreWrite(p, rankFails) ==
    /\ scoreReq[p].pc = "update"
    /\ totalScore' = updatedTotal(totalScore, scoreReq[p])
    /\ scoreReq' = [scoreReq EXCEPT ![p].pc = "done",
                                    ![p].reply = updateReply(totalScore', rankFails)]
    /\ scoreLog' = [scoreLog EXCEPT !.requested = @ + scoreReq[p].points,
                                    !.negatives = @ + (IF scoreReq[p].points < 0 THEN 1 ELSE 0)]
    /\ UNCHANGED <<scoreVars, serverVars, session>>

(***************************************************************************)
(* The game components of the client: TrainingPhase and HealthNutGame      *)
(***************************************************************************)
\* what the AI backend answers in a game session
TrainingTexts ==
    { FreeText,
      PointToken(<<"5">>, "new_argument"),
      PointTokenTight(<<"3", "0">>, "completion") \o FreeText,
      FreeText \o BadgeToken("[badge:", "reason_giver") }

HealthNutTexts ==
    { <<"Qaylee:", " ">> \o FreeText,
      <<"Qaylee:", " ", "{award_points:", " ", "4", ",", " ", "type:", " ",
        QUOTE, QUOTE, "clear", QUOTE, "}">> \o FreeText,
      <<"Qaylee:", " ", "Great", " ", "Plato:", " ", "{award_points:", "3", "0", ",",
        "type:", QUOTE, QUOTE, "clear", QUOTE, "}">>,
      PointToken(<<"3">>, "basic") }

\* useState initial values of TrainingPhase
OpenTraining ==
    /\ session.game = "none"
    /\ session' = [NoSession EXCEPT !.game = "training"]
    /\ UNCHANGED <<scoreVars, serverVars, ledgerVars>>

\* useState initial values of HealthNutGame and its effect getFirstClaim
OpenHealthNut ==
    /\ session.game = "none"
    /\ session' = [NoSession EXCEPT !.game = "healthNut", !.dialogue = 1,
                                    !.pending = TRUE, !.historyLength = 1,
                                    !.reqNo = started]
    /\ UNCHANGED <<scoreVars, serverVars, ledgerVars>>

\* TrainingPhase handleSubmit up to the request: dialogueHistory = dialogue.map(..)
TrainingSubmit ==
    /\ session.game = "training"
    /\ ~session.isComplete /\ ~session.isSubmitting
    /\ session.turns < MaxTurns
    /\ session' = [session EXCEPT !.isSubmitting = TRUE, !.pending = TRUE,
                                  !.historyLength = session.dialogue,
                                  !.reqNo = started]
    /\ UNCHANGED <<scoreVars, serverVars, ledgerVars>>

\* HealthNutGame handleSubmit up to the request: dialogueHistory = dialogue.slice(1).map(..)
HealthNutSubmit ==
    /\ session.game = "healthNut"
    /\ ~session.isComplete /\ ~session.isSubmitting /\ session.dialogue > 1
    /\ session.turns < MaxTurns
    /\ session' = [session EXCEPT !.isSubmitting = TRUE, !.pending = TRUE,
                                  !.historyLength = session.dialogue - 1,
                                  !.reqNo = started]
    /\ UNCHANGED <<scoreVars, serverVars, ledgerVars>>

\* the request of the session has not reached the server yet
Sent == session.pending /\ started = session.reqNo
\* the server has replied to the request of the session
Replied == session.pending /\ started = session.reqNo + 1 /\ req[1].pc = "done"

\* the attempts of an updateScore loop, and the bonus of a completed training
maxRetries == 3
completionBonus == 10

\* the updateScore loops the handler runs for a reply, in order: the points
\* of the reply (also when their amount is 0), then the completion bonus
scoreUpdates(points, withBonus) ==
    (IF points = NULL THEN <<>>
     ELSE <<[points |-> amountOrZero(points), attempts |-> maxRetries]>>)
        \o (IF withBonus THEN <<[points |-> completionBonus, attempts |-> maxRetries]>>
            ELSE <<>>)

\* fetch("/api/update-score", {points}) of the running loop reaches the server
ScorePost(u, authenticated) ==
    /\ session.toPost # <<>> /\ ~session.posted
    /\ session' = [session EXCEPT !.posted = TRUE, !.sent = @ + 1]
    /\ updateReceived(1, u, authenticated, Head(session.toPost).points)
    /\ UNCHANGED <<scoreVars, serverVars>>

\* the loop after its request was answered: done when response.ok and
\* refreshUser succeeded or when the attempts are used up, else a retry;
\* the handler's finally clears isSubmitting after the last loop
\* a loop that retries while retryCount < maxRetries
scoreObservedOnceMore(s, ok) ==
    IF ok \/ Head(s.toPost).attempts = 0
    THEN [s EXCEPT !.toPost = Tail(@), !.posted = FALSE, !.sent = 0,
                   !.isSubmitting = (Tail(s.toPost) # <<>> \/ s.phase = "score"),
                   !.phase = IF s.phase = "final" THEN "none" ELSE @]
    ELSE [s EXCEPT !.toPost[1].attempts = @ - 1, !.posted = FALSE]

scoreObserved(s, ok) ==
    IF ok \/ Head(s.toPost).attempts = 1
    THEN [s EXCEPT !.toPost = Tail(@), !.posted = FALSE, !.sent = 0,
                   !.isSubmitting = (Tail(s.toPost) # <<>> \/ s.phase = "score"),
                   !.phase = IF s.phase = "final" THEN "none" ELSE @]
    ELSE [s EXCEPT !.toPost[1].attempts = @ - 1, !.posted = FALSE]

\* failed: the response was lost on the way or refreshUser threw
ScoreObserve(failed) ==
    /\ session.posted /\ scoreReq[1].pc = "done"
    /\ session' = scoreObserved(session, scoreReq[1].reply.status = 200 /\ ~failed)
    /\ UNCHANGED <<scoreVars, serverVars, ledgerVars>>

(***************************************************************************)
(* The Thought Zombies component of the client (ThoughtZombiesGame)        *)
(***************************************************************************)
\* what the AI backend answers in a Thought Zombies session
ZombiesSessionTexts ==
    { FreeText,
      <<"[REASONING +", "6", "0", ":", "]">>,
      <<"[ENGAGEMENT +", "4", "0", ":", "]">> \o BadgeToken("[badge:", "reason_giver"),
      BadgeToken("[badge:", "reason_giver"),
      BadgeToken("[badge:", "link_cutter"),
      BadgeToken("[badge:", "hidden_premise_hunter"),
      BadgeToken("[badge:", "evidence_expert"),
      BadgeToken("[BADGE:", "FACT_CHECKER") }

\* the points the handler reads from the message, after removeBadgeAwardSyntax:
\* the first token of each category (the texts hold no old-format
\* [+N points for ...] token, whose amounts the handler would add)
categoryPoints(displayMessage) ==
    amountOf(match(reasoningRegex, displayMessage))
        + amountOf(match(engagementRegex, displayMessage))
        + amountOf(match(bonusRegex, displayMessage))

clientPoints(message) == categoryPoints(trim(replaceAll(badgeRegex, message)))

\* the component is mounted by a user who owns no badge (GET /api/user-badges
\* answers []), the intro is played and the topic chosen
OpenZombies ==
    /\ session.game = "none"
    /\ \A k \in DOMAIN userBadges : userBadges[k] = 0
    /\ session' = [NoSession EXCEPT !.game = "zombies", !.gameStage = "argue-own",
                                    !.nextStage = "argue-own"]
    /\ UNCHANGED <<scoreVars, serverVars, ledgerVars>>

\* handleSubmitResponse up to the request; the handler keeps the totalScore
\* of the render it was created in
ZombiesSubmit ==
    /\ session.game = "zombies" /\ session.gameStage = "argue-own"
    /\ ~session.isSubmitting
    /\ session.turns < MaxZombieTurns
    /\ session' = [session EXCEPT !.isSubmitting = TRUE, !.pending = TRUE,
                                  !.reqNo = started,
                                  !.handlerTotal = session.totalScore,
                                  !.nextStage = session.gameStage]
    /\ UNCHANGED <<scoreVars, serverVars, ledgerVars>>

\* getGeminiResponse: a failed request is turned into an apology without
\* score or badge
geminiResponse(reply) ==
    IF reply.status = 200 THEN [message |-> reply.message, badge |-> reply.badge]
    ELSE [message |-> <<"junk">>, badge |-> NULL]

\* earnedBadges.length + (earnedBadges.some(b => b.id === badgeFromResponse.id) ? 0 : 1)
badgeCountOf(earnedBadges, badgeFromResponse) ==
    Cardinality(earnedBadges)
        + (IF badgeFromResponse # NULL /\ ~(badgeFromResponse \subseteq earnedBadges)
           THEN 1 ELSE 0)

\* the points of the turn, the new session total, the per-turn score
\* request and the stage decision
zombiesScored(s, g, points) ==
    [s EXCEPT !.pending = FALSE,
              !.turns = @ + 1,
              !.earned = @ + points,
              !.totalScore = @ + points,
              !.toPost = IF points > 0 THEN <<[points |-> points, attempts |-> 1]>>
                         ELSE <<>>,
              !.phase = "score",
              !.nextStage = IF s.totalScore + points >= 100
                               \/ badgeCountOf(s.earnedBadges, g.badge) >= 5
                            THEN "results" ELSE s.gameStage]

zombiesReceived(s, g) == zombiesScored(s, g, clientPoints(g.message))

ZombiesReceive ==
    /\ session.game = "zombies" /\ session.pending
    /\ started = session.reqNo + 1 /\ req[1].pc = "client"
    /\ session' = zombiesReceived(session, geminiResponse(req[1].reply))
    /\ UNCHANGED <<scoreVars, serverVars, ledgerVars>>

\* after the per-turn score request: a badge of the reply is added to
\* earnedBadges; a badge only named in the text goes to POST /api/award-badge
ZombiesBadge ==
    /\ session.game = "zombies" /\ session.phase = "score" /\ session.toPost = <<>>
    /\ req[1].pc = "client"
    /\ req' = [req EXCEPT ![1] = clientHandled(req[1])]
    /\ session' = [session EXCEPT !.phase = "badge",
                                  !.earnedBadges = @ \cup geminiResponse(req[1].reply).badge]
    /\ UNCHANGED <<reference, userBadges, started, scoreVars, ledgerVars>>

\* the stage transition; on the move to results the handler posts the
\* totalScore it holds with the retry loop
zombiesStaged(s) ==
    IF s.nextStage # s.gameStage
    THEN [s EXCEPT !.gameStage = s.nextStage, !.phase = "final",
                   !.toPost = <<[points |-> s.handlerTotal, attempts |-> maxRetries]>>]
    ELSE [s EXCEPT !.phase = "none", !.isSubmitting = FALSE]

\* the reply of POST /api/award-badge (if it was called) and the transition
ZombiesStage ==
    /\ session.game = "zombies" /\ session.phase = "badge"
    /\ req[1].pc = "done"
    /\ session' = zombiesStaged([session EXCEPT !.earnedBadges =
                        @ \cup (IF req[1].reply.status = 200 THEN req[1].reply.badge
                                ELSE NULL)])
    /\ UNCHANGED <<scoreVars, serverVars, ledgerVars>>

\* TrainingPhase handleSubmit after the reply (a failed request changes nothing)
trainingReceived(s, reply) ==
    IF reply.status # 200
    THEN [s EXCEPT !.isSubmitting = FALSE, !.pending = FALSE]
    ELSE [s EXCEPT !.isSubmitting = (reply.points # NULL \/ reply.isComplete),
                   !.pending = FALSE,
                   !.dialogue = @ + 2,
                   !.auraPoints = @ + amountOrZero(reply.points)
                                    + (IF reply.isComplete THEN completionBonus ELSE 0),
                   !.isComplete = @ \/ reply.isComplete,
                   !.turns = @ + 1,
                   !.earned = @ + amountOrZero(reply.points),
                   !.reported = reply.isComplete,
                   !.toPost = scoreUpdates(reply.points, reply.isComplete)]

TrainingReceive ==
    /\ session.game = "training" /\ Replied
    /\ session' = trainingReceived(session, req[1].reply)
    /\ UNCHANGED <<scoreVars, serverVars, ledgerVars>>

\* HealthNutGame after the reply: getFirstClaim appends the messages,
\* handleSubmit the user's response and the messages
healthNutReceived(s, reply, first) ==
    IF reply.status # 200
    THEN [s EXCEPT !.isSubmitting = FALSE, !.pending = FALSE]
    ELSE IF first
    THEN [s EXCEPT !.isSubmitting = FALSE, !.pending = FALSE, !.dialogue = @ + Len(reply.messages)]
    ELSE [s EXCEPT !.isSubmitting = (reply.points # NULL),
                   !.pending = FALSE,
                   !.dialogue = @ + 1 + Len(reply.messages),
                   !.auraPoints = @ + amountOrZero(reply.points),
                   !.isComplete = @ \/ reply.isComplete,
                   !.turns = @ + 1,
                   !.earned = @ + amountOrZero(reply.points),
                   !.reported = reply.isComplete,
                   !.toPost = scoreUpdates(reply.points, FALSE)]

HealthNutReceive ==
    /\ session.game = "healthNut" /\ Replied
    /\ session' = healthNutReceived(session, req[1].reply, session.dialogue = 1)
    /\ UNCHANGED <<scoreVars, serverVars, ledgerVars>>

(***************************************************************************)
(* Specifications                                                          *)
(***************************************************************************)
\* what the AI backend may do to a request: not reached (401), fail (500),
\* or answer with a text of aiTexts
AiOutcomes(aiTexts) ==
    {[authenticated |-> TRUE, aiFails |-> FALSE, aiResponse |-> t] : t \in aiTexts}
        \cup {[authenticated |-> FALSE, aiFails |-> FALSE, aiResponse |-> <<>>],
              [authenticated |-> TRUE, aiFails |-> TRUE, aiResponse |-> <<>>]}

\* the users whose request slot p can take
Callers(p, c) == IF Admit(p, c) THEN Users ELSE {}

\* a request arrives at slot p
DialogueArrives(p, c) ==
    \E u \in Callers(p, c) : \E x \in AiOutcomes(c.dialogue), h \in c.histories :
        DialogueStart(p, c, u, x.authenticated, x.aiFails, x.aiResponse, h)

HealthNutArrives(p, c) ==
    \E u \in Callers(p, c) : \E x \in AiOutcomes(c.healthNut), h \in c.histories :
        HealthNutDialogue(p, c, u, x.authenticated, x.aiFails, x.aiResponse, h)

ZombiesArrives(p, c) ==
    \E u \in Callers(p, c) : \E x \in AiOutcomes(c.zombies) :
        ZombiesDialogue(p, c, u, x.authenticated, x.aiFails, x.aiResponse)

AwardArrives(p, c) ==
    \E u \in Callers(p, c) : \E a \in BOOLEAN, b \in AwardBodies :
        AwardStart(p, c, u, a, b)

Handle(p) ==
    \/ DialogueCheck(p)
    \/ DialogueInsert(p)
    \/ AwardCheck(p)
    \/ AwardInsert(p)
    \/ ZombiesClient(p)

\* the badge ledger under concurrent requests
Concurrent == [limit |-> MaxRequests, serial |-> FALSE, histories |-> {0},
               dialogue |-> LedgerTexts, zombies |-> LedgerTexts]

Next ==
    \E p \in Procs :
        \/ DialogueArrives(p, Concurrent)
        \/ ZombiesArrives(p, Concurrent)
        \/ AwardArrives(p, Concurrent)
        \/ Handle(p)

Spec == Init /\ [][Next]_vars

\* the badge ledger when requests do not overlap
Serial == [limit |-> MaxRequests, serial |-> TRUE, histories |-> {0},
           dialogue |-> LedgerTexts, zombies |-> LedgerTexts]

NextSeq ==
    \E p \in Procs :
        \/ DialogueArrives(p, Serial)
        \/ ZombiesArrives(p, Serial)
        \/ AwardArrives(p, Serial)
        \/ Handle(p)

SpecSeq == Init /\ [][NextSeq]_vars

\* the annotation parser: one request on one AI text
Single == [limit |-> 1, serial |-> TRUE, histories |-> {0, 8},
           dialogue |-> DialogueTexts, healthNut |-> HealthNutParseTexts,
           zombies |-> ZombiesTexts]

NextParse ==
    \/ DialogueArrives(1, Single)
    \/ HealthNutArrives(1, Single)
    \/ ZombiesArrives(1, Single)
    \/ Handle(1)

SpecParse == Init /\ [][NextParse]_vars

\* one game session: the component sends its dialogue history, the server
\* answers, the component appends the turn
InSession ==
    [limit |-> MaxTurns + 1, serial |-> TRUE, histories |-> {session.historyLength},
     dialogue |-> TrainingTexts, healthNut |-> HealthNutTexts, faults |-> {FALSE}]

NextSession ==
    \/ OpenTraining
    \/ OpenHealthNut
    \/ TrainingSubmit
    \/ HealthNutSubmit
    \/ \E u \in Users, x \in AiOutcomes(TrainingTexts) :
          /\ session.game = "training" /\ Sent
          /\ DialogueStart(1, InSession, u, x.authenticated, x.aiFails,
                           x.aiResponse, session.historyLength)
    \/ \E u \in Users, x \in AiOutcomes(HealthNutTexts) :
          /\ session.game = "healthNut" /\ Sent
          /\ HealthNutDialogue(1, InSession, u, x.authenticated, x.aiFails,
                               x.aiResponse, session.historyLength)
    \/ DialogueCheck(1)
    \/ DialogueInsert(1)
    \/ TrainingReceive
    \/ HealthNutReceive
    \/ \E u \in Users : ScorePost(u, TRUE)
    \/ \E rankFails \in InSession.faults : UpdateScoreWrite(1, rankFails)
    \/ \E failed \in InSession.faults : ScoreObserve(failed)

SpecSession == Init /\ [][NextSession]_vars

\* a short game session in which a score request may fail after the server
\* has applied it
Unreliable ==
    [limit |-> MaxAwardTurns, serial |-> TRUE, histories |-> {session.historyLength},
     dialogue |-> TrainingTexts, healthNut |-> HealthNutTexts, faults |-> BOOLEAN]

NextAward ==
    \/ OpenTraining
    \/ OpenHealthNut
    \/ TrainingSubmit
    \/ HealthNutSubmit
    \/ \E u \in Users, x \in AiOutcomes(TrainingTexts) :
          /\ session.game = "training" /\ Sent
          /\ DialogueStart(1, Unreliable, u, x.authenticated, x.aiFails,
                           x.aiResponse, session.historyLength)
    \/ \E u \in Users, x \in AiOutcomes(HealthNutTexts) :
          /\ session.game = "healthNut" /\ Sent
          /\ HealthNutDialogue(1, Unreliable, u, x.authenticated, x.aiFails,
                               x.aiResponse, session.historyLength)
    \/ DialogueCheck(1)
    \/ DialogueInsert(1)
    \/ TrainingReceive
    \/ HealthNutReceive
    \/ \E u \in Users : ScorePost(u, TRUE)
    \/ \E rankFails \in Unreliable.faults : UpdateScoreWrite(1, rankFails)
    \/ \E failed \in Unreliable.faults : ScoreObserve(failed)

SpecAward == Init /\ [][NextAward]_vars

\* one Thought Zombies session; every score request succeeds
InZombies == [limit |-> MaxZombieTurns, serial |-> TRUE, zombies |-> ZombiesSessionTexts]

NextZombies ==
    \/ OpenZombies
    \/ ZombiesSubmit
    \/ \E u \in Users, x \in AiOutcomes(ZombiesSessionTexts) :
          /\ session.game = "zombies" /\ session.pending /\ started = session.reqNo
          /\ ZombiesDialogue(1, InZombies, u, x.authenticated, x.aiFails, x.aiResponse)
    \/ ZombiesReceive
    \/ \E u \in Users : ScorePost(u, TRUE)
    \/ UpdateScoreWrite(1, FALSE)
    \/ ScoreObserve(FALSE)
    \/ ZombiesBadge
    \/ AwardCheck(1)
    \/ AwardInsert(1)
    \/ ZombiesStage

SpecZombies == Init /\ [][NextZombies]_vars

\* the state-changing endpoints side by side, with and without a logged-in
\* user; the badge endpoints take their requests one after another
Guarded == [limit |-> MaxRequests, serial |-> TRUE, histories |-> {0},
            dialogue |-> {BadgeToken("[badge:", "reason_giver")}]
GuardedValues == {6}
GuardedAmounts == {2}
GuardedBodies == {<<"reason_giver">>}

\* the user answers the questions in order, each once
GuardedIds == {Len(userResponses) + 1} \cap QuestionIds

NextGuarded ==
    \/ \E q \in GuardedIds : \E a \in BOOLEAN, v \in GuardedValues : PostResponse(a, q, v)
    \/ \E a \in BOOLEAN : CompleteQuestionnaire(a)
    \/ \E p \in Procs : \E u \in UpdateCallers(p, 1) : \E a \in BOOLEAN, points \in GuardedAmounts :
          UpdateScoreStart(p, u, a, points)
    \/ \E p \in Procs : UpdateScoreWrite(p, FALSE)
    \/ \E p \in Procs : DialogueArrives(p, Guarded)
    \/ \E p \in Procs : \E u \in Callers(p, Guarded) : \E a \in BOOLEAN, b \in GuardedBodies :
          AwardStart(p, Guarded, u, a, b)
    \/ \E p \in Procs : DialogueCheck(p)
    \/ \E p \in Procs : DialogueInsert(p)
    \/ \E p \in Procs : AwardCheck(p)
    \/ \E p \in Procs : AwardInsert(p)

SpecGuarded == Init /\ [][NextGuarded]_vars

\* the dialogue endpoints when the generative-text backend may fail
Outage == [limit |-> MaxRequests + 1, serial |-> TRUE, histories |-> {0},
           dialogue |-> {BadgeToken("[badge:", "reason_giver")},
           healthNut |-> {PointToken(<<"3">>, "basic")},
           zombies |-> {BadgeToken("[BADGE:", "FACT_CHECKER"),
                        BadgeToken("[badge:", "reason_giver")}]

NextOutage ==
    \/ \E p \in Procs : DialogueArrives(p, Outage)
    \/ \E p \in Procs : HealthNutArrives(p, Outage)
    \/ \E p \in Procs : ZombiesArrives(p, Outage)
    \/ \E p \in Procs : \E u \in UpdateCallers(p, 1) :
          UpdateScoreStart(p, u, TRUE, 2)
    \/ \E p \in Procs : UpdateScoreWrite(p, FALSE)
    \/ \E p \in Procs : DialogueCheck(p)
    \/ \E p \in Procs : DialogueInsert(p)
    \/ \E p \in Procs : ZombiesClient(p)
    \/ \E p \in Procs : AwardCheck(p)
    \/ \E p \in Procs : AwardInsert(p)

SpecOutage == Init /\ [][NextOutage]_vars

\* the score ledger: update-score requests with any amounts, overlapping
NextLedger ==
    \E p \in Procs :
        \/ \E u \in UpdateCallers(p, MaxUpdates) : \E a \in BOOLEAN, points \in ScoreAmounts :
              UpdateScoreStart(p, u, a, points)
        \/ \E rankFails \in BOOLEAN : UpdateScoreWrite(p, rankFails)

SpecLedger == Init /\ [][NextLedger]_vars

\* the game components, each with score requests that may fail
NextRetry ==
    \/ NextAward
    \/ OpenZombies
    \/ ZombiesSubmit
    \/ \E u \in Users, x \in AiOutcomes(ZombiesSessionTexts) :
          /\ session.game = "zombies" /\ session.pending /\ started = session.reqNo
          /\ ZombiesDialogue(1, InZombies, u, x.authenticated, x.aiFails, x.aiResponse)
    \/ ZombiesReceive
    \/ ZombiesBadge
    \/ AwardCheck(1)
    \/ AwardInsert(1)
    \/ ZombiesStage

SpecRetry == Init /\ [][NextRetry]_vars

\* the reference tables over the starts of the server
SpecSeed == Init /\ [][NextSeed]_vars

(***************************************************************************)
(* Properties of the questionnaire scorer                                  *)
(***************************************************************************)
\* R holds exactly one value in 1..6 for each question of the reference set
\* and nothing else
ValidResponseSet(R) ==
    /\ {R[i].questionId : i \in DOMAIN R} = QuestionIds
    /\ Len(R) = Cardinality(QuestionIds)
    /\ \A i \in DOMAIN R : R[i].response \in 1..6

RECURSIVE ReversalSum(_)
ReversalSum(R) ==
    IF R = <<>> THEN 0
    ELSE (IF Head(R).questionId \in SeededReversed
          THEN 7 - Head(R).response ELSE Head(R).response) + ReversalSum(Tail(R))

\* the questionnaire was completed on a valid response set
ScoredValid ==
    /\ lastReply.op = "complete" /\ lastReply.status # 401
    /\ ValidResponseSet(lastReply.latest)

\* C1: on a response set with exactly one value in 1..6 per question of the
\* reference set, calculateAOTScore returns the sum of 7 - v over the reversed
\* and v over the other questions; the sum lies in [n, 6n]; a 1 on a reversed
\* question contributes 6 and a 6 contributes 1.
C1_ScoreIsReversalSum ==
    ScoredValid =>
        /\ lastReply.status = 200
        /\ lastReply.aotScore = Some(ReversalSum(lastReply.latest))
        /\ aotScore = lastReply.aotScore
        /\ ValueOf(lastReply.aotScore) >= Cardinality(aotQuestions)
        /\ ValueOf(lastReply.aotScore) <= 6 * Cardinality(aotQuestions)
        /\ \A i \in DOMAIN lastReply.latest :
              lastReply.latest[i].questionId \in SeededReversed =>
                 /\ lastReply.latest[i].response = 1 =>
                        questionScore(aotQuestions, lastReply.latest[i]) = 6
                 /\ lastReply.latest[i].response = 6 =>
                        questionScore(aotQuestions, lastReply.latest[i]) = 1

\* a valid set with a 1 on the reversed question 1 was scored
C1_Witness ==
    /\ ScoredValid
    /\ \E i \in DOMAIN lastReply.latest :
          lastReply.latest[i] = [questionId |-> 1, response |-> 1]
    /\ lastReply.aotScore # NULL

(***************************************************************************)
(* Properties of the completion evaluator                                  *)
(***************************************************************************)
\* a turn of the session has been answered
Answered == session.game \in {"training", "healthNut"} /\ session.turns > 0

\* C2: over the turns of one session, a turn's response reports isComplete
\* exactly when the number of turns so far is >= 8 and the points earned in
\* the session so far are >= 30.
C2_CompleteIffTurnsAndPoints ==
    Answered => (session.reported <=> (session.turns >= 8 /\ session.earned >= 30))

(***************************************************************************)
(* Properties of the badge ledger                                          *)
(***************************************************************************)
\* C3: in every reachable state, also when requests of one user interleave
\* between their existence check and their insert, user_badges holds at most
\* one row per (userId, badgeId).
C3_AtMostOneRowPerPair == \A k \in DOMAIN userBadges : userBadges[k] <= 1

\* an answered POST /api/award-badge of a known badge
AwardDone(p) == req[p].kind = "award" /\ req[p].pc = "done" /\ req[p].badgeId # NULL

\* C4: when requests do not overlap, POST /api/award-badge of a known badge
\* answers "Badge awarded successfully" and inserts one row if the user did
\* not own the badge, answers "Badge already awarded" and inserts nothing if
\* the user did, and exactly one row of the pair exists afterwards.
C4_SequentialAwardIdempotent ==
    \A p \in Procs :
        AwardDone(p) =>
            /\ userBadges[<<req[p].user, ValueOf(req[p].badgeId)>>] = 1
            /\ req[p].reply.status = 200
            /\ req[p].reply.badge = req[p].badgeId
            /\ IF req[p].ownedAtStart = 0
               THEN /\ req[p].reply.message = "Badge awarded successfully"
                    /\ req[p].inserted = <<ValueOf(req[p].badgeId)>>
               ELSE /\ req[p].reply.message = "Badge already awarded"
                    /\ req[p].inserted = <<>>

\* two awards of the same badge, one after the other: the first newly
\* awarded, the second already awarded
C4_Witness ==
    \E p, q \in Procs :
        /\ AwardDone(p) /\ AwardDone(q)
        /\ req[p].badgeId = req[q].badgeId /\ req[p].user = req[q].user
        /\ req[p].ownedAtStart = 0 /\ req[p].reply.message = "Badge awarded successfully"
        /\ req[q].ownedAtStart = 1 /\ req[q].reply.message = "Badge already awarded"
        /\ userBadges[<<req[p].user, ValueOf(req[p].badgeId)>>] = 1

(***************************************************************************)
(* Properties of the annotation parser                                     *)
(***************************************************************************)
\* an answered request of one kind
Answer(p, kind) == req[p].kind = kind /\ req[p].pc = "done" /\ req[p].reply.status = 200

hasToken(re, t) == match(re, t).ok

noTokenIn(messages, re) == \A k \in DOMAIN messages : ~hasToken(re, messages[k].content)

\* C5: the display text of POST /api/dialogue and every message content of
\* POST /api/health-nut/dialogue holds no recognized token of the mode (point
\* token, badge token, table token), also when the token appears only after
\* another token was removed.
C5_DisplayHasNoToken ==
    \A p \in Procs :
        /\ Answer(p, "dialogue") =>
              /\ ~hasToken(pointsRegex, req[p].reply.response)
              /\ ~hasToken(badgeRegex, req[p].reply.response)
        /\ Answer(p, "healthNut") =>
              /\ noTokenIn(req[p].reply.messages, pointsRegex)
              /\ noTokenIn(req[p].reply.messages, healthPointsRegex)
              /\ noTokenIn(req[p].reply.messages, tableRegex)

RECURSIVE Flat(_)
Flat(chunks) == IF chunks = <<>> THEN <<>> ELSE Head(chunks) \o Flat(Tail(chunks))

Orders(a, b, c) ==
    {<<a, b, c>>, <<a, c, b>>, <<b, a, c>>, <<b, c, a>>, <<c, a, b>>, <<c, b, a>>}

WellFormedPoints ==
    { [chunk |-> PointToken(<<"5">>, "new_argument"), amount |-> 5, label |-> "new_argument"],
      [chunk |-> PointTokenTight(<<"3", "0">>, "completion"), amount |-> 30,
       label |-> "completion"] }

WellFormedBadges ==
    { [chunk |-> BadgeToken("[badge:", "reason_giver"), name |-> "reason_giver"],
      [chunk |-> <<"[BADGE:", "FACT_CHECKER", "]">>, name |-> "FACT_CHECKER"],
      [chunk |-> BadgeToken("[badge:", "super_thinker"), name |-> "super_thinker"] }

\* free text that holds no token
TokenFree ==
    { FreeText,
      <<"{award_points:", " ", "7", ",", " ", "type:", " ", QUOTE, "counter_u", QUOTE>>,
      <<"}">>,
      <<"[badge:", " ">>,
      <<"y", "]">> }

\* the texts made of one point token, one free text and one badge token
RoundTripsOf(pt, t, b) ==
    {[text |-> Flat(o), points |-> pt, badge |-> b, free |-> t] :
        o \in Orders(pt.chunk, t, b.chunk)}

RoundTrips ==
    UNION {RoundTripsOf(pt, t, b) : pt \in WellFormedPoints, t \in TokenFree,
                                    b \in WellFormedBadges}

\* C6: for an AI text made of one well-formed point token, free text T
\* without tokens and one badge token, POST /api/dialogue extracts the
\* token's amount and type, detects the token's badge name, and returns T
\* trimmed as display text.
C6_RoundTrip ==
    \A p \in Procs : \A c \in RoundTrips :
        (Answer(p, "dialogue") /\ req[p].text = c.text) =>
            /\ req[p].reply.points = Some([amount |-> c.points.amount,
                                           type |-> <<c.points.label>>])
            /\ req[p].badgeType = Some(<<c.badge.name>>)
            /\ req[p].reply.response = trim(c.free)

\* the text {award_points: 5, type: "new_argument"} Great point! [badge: reason_giver]
\* was answered with 5 points of type new_argument, the badge and "Great point!"
C6_Witness ==
    /\ Answer(1, "dialogue")
    /\ req[1].text = PointToken(<<"5">>, "new_argument") \o FreeText
                        \o BadgeToken("[badge:", "reason_giver")
    /\ req[1].reply.points = Some([amount |-> 5, type |-> <<"new_argument">>])
    /\ req[1].reply.badge = Some(1)
    /\ req[1].reply.response = <<"Great", " ", "point!">>

\* C7: in the Health Nut mode, for an AI text that holds a well-formed point
\* token {award_points: N, type: "label"}, the response carries
\* points = {amount: N, type: label}.
C7_HealthNutPointsExtracted ==
    \A p \in Procs :
        (Answer(p, "healthNut") /\ hasToken(pointsRegex, req[p].text)) =>
            req[p].reply.points = pointsOf(match(pointsRegex, req[p].text))

\* the tokens of the multi-category protocol and the texts around them
ProtocolTokens ==
    { [chunk |-> <<"[TOTAL: +", "1", "2", "]">>, kind |-> "total", amount |-> 12],
      [chunk |-> <<"[total: +", "9", "]">>, kind |-> "total", amount |-> 9],
      [chunk |-> <<"[REASONING +", "1", "0", ":", " ", "clear", "]">>,
       kind |-> "reasoning", amount |-> 10],
      [chunk |-> <<"[ENGAGEMENT +", "5", ":", "]">>, kind |-> "engagement", amount |-> 5],
      [chunk |-> <<"[BONUS +", "3", ":", " ", "great", "]">>, kind |-> "bonus", amount |-> 3],
      [chunk |-> <<"[Score: +", "7", "]">>, kind |-> "legacy", amount |-> 7],
      [chunk |-> BadgeToken("[BADGE:", "FACT_CHECKER"), kind |-> "text", amount |-> 0],
      [chunk |-> FreeText, kind |-> "text", amount |-> 0],
      [chunk |-> <<"]">>, kind |-> "text", amount |-> 0] }

IsPrefix(a, t) == Len(a) <= Len(t) /\ SubSeq(t, 1, Len(a)) = a

\* the tokens and pieces a text of the protocol is made of, in order
RECURSIVE protocolOf(_)
protocolOf(text) ==
    IF text = <<>> THEN <<>>
    ELSE LET first == CHOOSE k \in ProtocolTokens : IsPrefix(k.chunk, text)
         IN <<first>> \o protocolOf(SubSeq(text, Len(first.chunk) + 1, Len(text)))

present(tokens, kind) == \E k \in DOMAIN tokens : tokens[k].kind = kind

\* the amount of the first token of a kind, 0 when there is none
firstAmount(tokens, kind) ==
    IF present(tokens, kind)
    THEN tokens[CHOOSE k \in DOMAIN tokens :
                   /\ tokens[k].kind = kind
                   /\ \A j \in DOMAIN tokens : tokens[j].kind = kind => k <= j].amount
    ELSE 0

AggregatedScore(tokens) ==
    IF present(tokens, "total") THEN firstAmount(tokens, "total")
    ELSE IF present(tokens, "reasoning") \/ present(tokens, "engagement")
              \/ present(tokens, "bonus")
    THEN firstAmount(tokens, "reasoning") + firstAmount(tokens, "engagement")
            + firstAmount(tokens, "bonus")
    ELSE firstAmount(tokens, "legacy")

\* the server has replied to a Thought Zombies request and the client has
\* not yet acted on the reply
ZombiesAnswer(p) ==
    req[p].kind = "zombies" /\ req[p].pc = "client" /\ req[p].reply.status = 200

\* C8: the score of POST /api/thought-zombies/dialogue is the amount of the
\* [TOTAL: +N] token if one is present; else the sum of the amounts of the
\* REASONING, ENGAGEMENT and BONUS tokens (absent ones counting 0) if one is
\* present; else the amount of the legacy [Score: +N] token; else 0.  Of
\* several tokens of one kind the first counts.
C8_ScorePrecedence ==
    \A p \in Procs :
        ZombiesAnswer(p) => req[p].reply.score = AggregatedScore(protocolOf(req[p].text))

\* a text with category tokens and a legacy token was scored by the categories
C8_Witness ==
    /\ ZombiesAnswer(1)
    /\ req[1].text = <<"[Score: +", "7", "]">>
                        \o <<"[REASONING +", "1", "0", ":", " ", "clear", "]">>
                        \o <<"[BONUS +", "3", ":", " ", "great", "]">>
    /\ req[1].reply.score = 13

(***************************************************************************)
(* Properties of the badge tokens of a dialogue request                    *)
(***************************************************************************)
\* the texts of the badge ledger are runs of badge tokens [badge: name]:
\* the name of the first token is the third lexeme
FirstBadgeName(text) == text[3]

\* a dialogue request on a text with a badge token
BadgeDialogue(p) == req[p].kind \in {"dialogue", "zombies"} /\ req[p].text # <<>>

\* C9: a dialogue request honours only the first badge token of the AI text:
\* it extracts at most one badge name, the first, and inserts at most one
\* row, of the first token's badge; a later token is never awarded, also
\* when the first names an unknown or an already owned badge.
C9_OnlyFirstBadgeToken ==
    \A p \in Procs :
        BadgeDialogue(p) =>
            /\ Len(req[p].inserted) <= 1
            /\ \A k \in DOMAIN req[p].inserted :
                  badgesList[req[p].inserted[k]] = lowerOf(FirstBadgeName(req[p].text))
            /\ req[p].badgeType # NULL =>
                  toLowerCase(ValueOf(req[p].badgeType))
                      = <<lowerOf(FirstBadgeName(req[p].text))>>

\* a text whose first token names an unknown badge and whose second names a
\* known one was answered without a row inserted
C9_Witness ==
    \E p \in Procs :
        /\ Answer(p, "dialogue")
        /\ req[p].text = BadgeToken("[badge:", "super_thinker")
                            \o BadgeToken("[badge:", "reason_giver")
        /\ req[p].badgeType = Some(<<"super_thinker">>)
        /\ req[p].inserted = <<>>

\* a finished request that named a badge missing from table badges
UnknownBadge(p) ==
    req[p].kind \in {"dialogue", "award"} /\ req[p].pc = "done" /\ req[p].badgeLog = "unknown"

\* C10 as stated: awarding a badge whose name is not in table badges, by a
\* badge token of POST /api/dialogue or by POST /api/award-badge, inserts no
\* row and the request still completes successfully.
C10_UnknownBadgeSucceeds ==
    \A p \in Procs :
        UnknownBadge(p) => (req[p].inserted = <<>> /\ req[p].reply.status = 200)

\* C10 amended: awarding a badge whose name is not in table badges inserts
\* no row; by a badge token of POST /api/dialogue the request completes
\* successfully without a badge, by POST /api/award-badge it is answered 404
\* "not found".
C10_UnknownBadgeIgnoredOrNotFound ==
    \A p \in Procs :
        UnknownBadge(p) =>
            /\ req[p].inserted = <<>>
            /\ req[p].badgeId = NULL
            /\ req[p].kind = "dialogue" =>
                  (req[p].reply.status = 200 /\ req[p].reply.badge = NULL)
            /\ req[p].kind = "award" =>
                  (req[p].reply.status = 404 /\ req[p].reply.error = "not found")

\* an unknown badge met on both paths, with no row in user_badges
C10_Witness ==
    \E p, q \in Procs :
        /\ UnknownBadge(p) /\ req[p].kind = "dialogue" /\ req[p].reply.status = 200
        /\ UnknownBadge(q) /\ req[q].kind = "award" /\ req[q].reply.status = 404
        /\ \A k \in DOMAIN userBadges : userBadges[k] = 0

(***************************************************************************)
(* Properties of questionnaire completion                                  *)
(***************************************************************************)
\* the questions of the reference set the user has responded to
AnsweredOfReference ==
    {q \in QuestionIds : \E i \in DOMAIN userResponses : userResponses[i].questionId = q}

\* POST /api/complete-questionnaire was the last request and the user was logged in
CompletionAnswered == lastReply.op = "complete" /\ lastReply.status # 401

\* C11: completion requested with responses to only k < n distinct questions
\* of the reference set returns the incomplete outcome, and the missing
\* count it reports is n - k.
C11_IncompleteReportsMissing ==
    (CompletionAnswered /\ Cardinality(AnsweredOfReference) < Cardinality(QuestionIds)) =>
        /\ lastReply.status = 400
        /\ lastReply.missingCount = Cardinality(QuestionIds) - Cardinality(AnsweredOfReference)

\* C12: a score is stored (aotScore set, hasCompletedQuestionnaire true) only
\* if every question of the reference set has a response of the user;
\* otherwise completion fails explicitly.
C12_ScoreOnlyWhenAllAnswered ==
    /\ (hasCompletedQuestionnaire \/ aotScore # NULL) => AnsweredOfReference = QuestionIds
    /\ (CompletionAnswered /\ AnsweredOfReference # QuestionIds) => lastReply.status = 400

\* the value of the most recently submitted response to question q
LastValue(q) ==
    userResponses[CHOOSE i \in DOMAIN userResponses :
                     /\ userResponses[i].questionId = q
                     /\ \A j \in DOMAIN userResponses :
                           userResponses[j].questionId = q => j <= i].response

RECURSIVE SumOfLast(_)
SumOfLast(qs) ==
    IF qs = {} THEN 0
    ELSE LET q == CHOOSE x \in qs : TRUE
         IN (IF q \in SeededReversed THEN 7 - LastValue(q) ELSE LastValue(q))
                + SumOfLast(qs \ {q})

\* the user has responded to exactly the questions of the reference set, the
\* most recent value of each in 1..6
LastValuesValid ==
    /\ {userResponses[i].questionId : i \in DOMAIN userResponses} = QuestionIds
    /\ \A q \in QuestionIds : LastValue(q) \in 1..6

\* C13: where a question is answered several times, the score computed at
\* completion uses for each question only the value of the most recent
\* response; earlier values do not contribute.
C13_LatestResponseCounts ==
    (CompletionAnswered /\ LastValuesValid) =>
        /\ lastReply.status = 200
        /\ lastReply.aotScore = Some(SumOfLast(QuestionIds))

\* question 1 was answered 6 and then 1; the completion scored it by the 1
C13_Witness ==
    /\ CompletionAnswered /\ LastValuesValid
    /\ \E i, j \in DOMAIN userResponses :
          /\ i < j
          /\ userResponses[i] = [questionId |-> 1, response |-> 6]
          /\ userResponses[j] = [questionId |-> 1, response |-> 1]
    /\ LastValue(1) = 1
    /\ lastReply.status = 200

(***************************************************************************)
(* Properties of the badge ledger across the dialogue modes                *)
(***************************************************************************)
\* a turn of a badge-awarding dialogue mode has been processed (by the server
\* and, in Thought Zombies, by the client) on a text whose badge token names
\* a badge of table badges
KnownBadgeTurn(p) ==
    /\ BadgeDialogue(p)
    /\ req[p].pc = "done"
    /\ req[p].reply.status = 200
    /\ selectBadge(<<FirstBadgeName(req[p].text)>>) # NULL

\* C15: in every badge-awarding dialogue mode (POST /api/dialogue, and the
\* Thought Zombies flow of server and client together), once a turn whose AI
\* text holds a badge token naming a known badge has been processed, a row
\* of user_badges for the user and that badge exists.
C15_KnownBadgeTokenLeavesRow ==
    \A p \in Procs :
        KnownBadgeTurn(p) =>
            userBadges[<<req[p].user,
                         ValueOf(selectBadge(<<FirstBadgeName(req[p].text)>>))>>] > 0

(***************************************************************************)
(* Properties of the score ledger                                          *)
(***************************************************************************)
\* C16: users.total_score is >= 0 in every reachable state: starting from a
\* total >= 0, no sequence or interleaving of POST /api/update-score
\* requests with any integer amounts leaves the stored total below 0.
C16_TotalScoreNonNegative == totalScore >= 0

\* the update of slot p has been written
Written(p) == scoreReq[p].pc = "done" /\ scoreReq[p].reply.status # 401

\* two updates with amounts >= 0, the only ones so far, both read the total
\* before either wrote, and both have written
OverlappingUpdates(p, q) ==
    /\ p # q /\ Written(p) /\ Written(q)
    /\ scoreLog.updates = 2
    /\ scoreReq[p].points > 0 /\ scoreReq[q].points > 0
    /\ scoreReq[p].current = scoreReq[q].current

\* C17 as stated: score updates that interleave (read the current total,
\* then write the new total) lose an update: after two overlapping requests
\* adding p1, p2 >= 0 to a total t the stored total is less than t + p1 + p2.
C17_InterleavedUpdateLost ==
    \A p, q \in Procs :
        OverlappingUpdates(p, q) =>
            totalScore < scoreReq[p].current + scoreReq[p].points + scoreReq[q].points

\* C17 amended: no update is lost in any interleaving: the stored total is
\* never less than the sum of the amounts of the updates written, and it is
\* equal to it as long as every amount was >= 0.
C17_NoLostUpdate ==
    /\ totalScore >= scoreLog.requested
    /\ scoreLog.negatives = 0 => totalScore = scoreLog.requested

\* two overlapping updates of 1 and 2 on total 0 have both been written
C17_Witness ==
    /\ OverlappingUpdates(1, 2)
    /\ scoreReq[1].points = 1 /\ scoreReq[2].points = 2
    /\ scoreReq[1].current = 0
    /\ totalScore = 3

(***************************************************************************)
(* Properties of the point awards of the game components                   *)
(***************************************************************************)
\* the points the session has awarded so far, the completion bonus included
Awarded == session.earned + (IF session.isComplete THEN completionBonus ELSE 0)

\* C20: for a point award of TrainingPhase or HealthNutGame the amount is
\* added to users.total_score at most once, whatever the client's retry loop
\* observes: the stored total never exceeds the points the session awarded.
C20_AwardAddedAtMostOnce ==
    session.game \in {"training", "healthNut"} => totalScore <= Awarded

(***************************************************************************)
(* Properties of the Thought Zombies session                               *)
(***************************************************************************)
\* a turn of the session has been processed to its end
TurnProcessed ==
    session.game = "zombies" /\ session.turns > 0 /\ ~session.isSubmitting

\* C14: the Thought Zombies session moves from arguing to results on a turn
\* if and only if, after that turn's awards are applied, the session's
\* points are >= 100 or the distinct earned badges are >= 5.
C14_ResultsIffThreshold ==
    TurnProcessed =>
        (session.gameStage = "results"
            <=> (session.totalScore >= 100 \/ Cardinality(session.earnedBadges) >= 5))

\* C18: over a complete Thought Zombies session, every score request
\* succeeding, users.total_score grows by exactly the sum of the points
\* credited in the session's turns: no turn's points are posted twice.
C18_TotalGrowsByCreditedPoints ==
    (TurnProcessed /\ session.gameStage = "results") => totalScore = session.earned

(***************************************************************************)
(* Properties of the questionnaire wizard                                  *)
(***************************************************************************)
RECURSIVE SelectedScore(_)
SelectedScore(qs) ==
    IF qs = {} THEN 0
    ELSE LET q == CHOOSE x \in qs : TRUE
         IN (IF q \in SeededReversed THEN 7 - session.responses[q] ELSE session.responses[q])
                + SelectedScore(qs \ {q})

\* C19: in the questionnaire wizard the completion request is evaluated
\* after all answer submissions are stored: it never reports 'incomplete'
\* and its score is that of the last selected answers, for every order in
\* which the un-awaited POST /api/responses requests and
\* POST /api/complete-questionnaire reach the server.
C19_CompletionSeesAllAnswers ==
    session.game = "wizard" =>
        /\ lastReply.op = "complete" => lastReply.status = 200
        /\ session.isComplete => aotScore = Some(SelectedScore(QuestionIds))

(***************************************************************************)
(* Properties of the Thought Zombies score                                 *)
(***************************************************************************)
\* POST /api/thought-zombies/dialogue has answered slot p and the client
\* holds the reply
ZombiesReplied(p) ==
    req[p].kind = "zombies" /\ req[p].pc = "client" /\ req[p].reply.status = 200

\* C21: for every Thought Zombies turn the points the client credits to the
\* session and posts to /api/update-score equal the score the server
\* extracted from the same AI text (TOTAL, else the category sum, else the
\* legacy Score, else 0).
C21_ClientCreditsServerScore ==
    \A p \in Procs :
        ZombiesReplied(p) => clientPoints(req[p].reply.message) = req[p].reply.score

(***************************************************************************)
(* Properties of the authentication checks                                 *)
(***************************************************************************)
\* the persistent state: responses, scores, user flags and badge awards
persistentVars == <<userResponses, hasCompletedQuestionnaire, aotScore, userBadges, totalScore>>

\* a request without a logged-in user is handled by one of the five endpoints
UnauthenticatedStep ==
    \/ \E q \in QuestionIds, v \in GuardedValues : PostResponse(FALSE, q, v)
    \/ CompleteQuestionnaire(FALSE)
    \/ \E p \in Procs, u \in Users, points \in GuardedAmounts :
          UpdateScoreStart(p, u, FALSE, points)
    \/ \E p \in Procs, u \in Users, b \in GuardedBodies : AwardStart(p, Guarded, u, FALSE, b)
    \/ \E p \in Procs, u \in Users : DialogueStart(p, Guarded, u, FALSE, FALSE, <<>>, 0)

\* the step ends a request with the answer 401
Rejected ==
    \/ /\ lastReply'.op \in {"responses", "complete"} /\ lastReply'.status = 401
       /\ UNCHANGED <<req, scoreReq>>
    \/ \E p \in Procs :
          /\ started' = started + 1
          /\ req'[p].pc = "done" /\ req'[p].reply.status = 401
          /\ req'[p].kind \in {"dialogue", "award"}
    \/ \E p \in Procs :
          /\ scoreLog'.updates = scoreLog.updates + 1
          /\ scoreReq'[p].pc = "done" /\ scoreReq'[p].reply.status = 401

\* C22: each state-changing endpoint (POST /api/responses,
\* /api/complete-questionnaire, /api/update-score, /api/award-badge,
\* /api/dialogue) answers a request without an authenticated user with 401
\* and leaves responses, scores, user flags and badge awards unchanged.
C22_UnauthenticatedChangesNothing ==
    [][UnauthenticatedStep => (Rejected /\ UNCHANGED persistentVars)]_vars

\* requests without a user were answered 401 by a badge endpoint in each slot,
\* by update-score and by a questionnaire endpoint, while the user has
\* responses, a score, a badge and points stored
C22_Witness ==
    /\ lastReply.op = "complete" /\ lastReply.status = 401
    /\ req[1].kind = "dialogue" /\ req[1].reply.status = 401
    /\ req[2].kind = "award" /\ req[2].reply.status = 401
    /\ \E p \in Procs : scoreReq[p].pc = "done" /\ scoreReq[p].reply.status = 401
    /\ hasCompletedQuestionnaire /\ aotScore # NULL
    /\ Len(userResponses) = NumQuestions

(***************************************************************************)
(* Properties of the scorer's clamp and of the incomplete outcome          *)
(***************************************************************************)
Clamped(v) == IF v < 1 THEN 1 ELSE IF v > 6 THEN 6 ELSE v

RECURSIVE ClampedSum(_)
ClampedSum(latest) ==
    IF latest = <<>> THEN 0
    ELSE (IF Head(latest).questionId \in SeededReversed \cap QuestionIds
          THEN 7 - Clamped(Head(latest).response)
          ELSE Clamped(Head(latest).response))
            + ClampedSum(Tail(latest))

\* the completion computed a score
Scored == CompletionAnswered /\ lastReply.status = 200

\* C23: for any integer response values, also below 1 or above 6, the scorer
\* clamps each value into [1, 6] before the reversal instead of rejecting
\* it: a defined score is the sum of the clamped contributions and for m
\* responses lies in [m, 6m].
C23_ClampedIntoRange ==
    Scored =>
        /\ ValueOf(lastReply.aotScore) = ClampedSum(lastReply.latest)
        /\ Len(lastReply.latest) <= ValueOf(lastReply.aotScore)
        /\ ValueOf(lastReply.aotScore) <= 6 * Len(lastReply.latest)

\* a score was computed from the values 0 and 7
C23_Witness ==
    /\ Scored
    /\ lastReply.latest = <<[questionId |-> 1, response |-> 0],
                            [questionId |-> 2, response |-> 7]>>
    /\ lastReply.aotScore = Some(12)

\* C24: when POST /api/complete-questionnaire reports the incomplete
\* outcome, hasCompletedQuestionnaire and aotScore are what they were before
\* the request.
C24_IncompleteChangesNothing ==
    [][(lastReply'.op = "complete" /\ lastReply'.status = 400)
          => UNCHANGED <<hasCompletedQuestionnaire, aotScore>>]_vars

\* a user who has a score stored was answered incomplete
C24_Witness ==
    /\ lastReply.op = "complete" /\ lastReply.status = 400
    /\ hasCompletedQuestionnaire /\ aotScore # NULL

(***************************************************************************)
(* Failure of the generative-text backend                                  *)
(***************************************************************************)
\* a dialogue request of an authenticated user whose AI call throws
BackendFailsAt(p) ==
    \E u \in Users :
        \/ DialogueStart(p, Outage, u, TRUE, TRUE, <<>>, 0)
        \/ HealthNutDialogue(p, Outage, u, TRUE, TRUE, <<>>, 0)
        \/ ZombiesDialogue(p, Outage, u, TRUE, TRUE, <<>>)

\* the request in slot p was answered 500
Failed(p) == req[p].kind \in {"dialogue", "healthNut", "zombies"} /\ req[p].reply.status = 500

\* all that happens to an answered request: its client reads the reply, or
\* a later request takes its slot
FailedRests(p) ==
    \/ req'[p] = req[p]
    \/ req'[p] = [req[p] EXCEPT !.pc = "done"]
    \/ started' = started + 1

\* C25: when the call to the generative-text backend fails during a
\* dialogue request (/api/dialogue, /api/health-nut/dialogue,
\* /api/thought-zombies/dialogue), the request ends with status 500, it
\* inserts no BadgeAward row and changes no score, and the server takes the
\* requests that follow.
C25_BackendFailureAnswers500 ==
    [][\A p \in Procs :
          /\ BackendFailsAt(p) =>
                /\ Failed(p)' /\ req'[p].inserted = <<>>
                /\ UNCHANGED <<userBadges, totalScore, scoreVars>>
          /\ Failed(p) =>
                /\ FailedRests(p)
                /\ Free(p) \/ req[p].pc = "client"]_vars

\* a request failed, and a request after it was served and left its badge
\* row
C25_Witness ==
    /\ started = Outage.limit
    /\ \E p \in Procs : Failed(p) /\ req[p].pc = "done"
    /\ \E p \in Procs : req[p].reply.status = 200 /\ req[p].inserted # <<>>
    /\ \E k \in DOMAIN userBadges : userBadges[k] = 1

(***************************************************************************)
(* The table of the Health Nut mode                                        *)
(***************************************************************************)
\* {table: {"headers": [...], "rows": [[...]]}}, on one line and on two
WellFormedTables ==
    { <<"{table:", " ", "{", "\"headers\": [\"a\"], \"rows\": [[\"1\"]]", "}", "}">>,
      <<"{table:", " ", "{", NEWLINE, "\"headers\": [\"a\"], \"rows\": [[\"1\"]]", "}", "}">> }

\* a table token whose object literal is no JSON
MalformedTables == { <<"{table:", " ", "{", "junk", "}", "}">> }

Contains(t, chunks) ==
    \E c \in chunks : \E i \in 1..Len(t) :
        i + Len(c) - 1 <= Len(t) /\ SubSeq(t, i, i + Len(c) - 1) = c

\* the text opens with the name of one of the characters
SpokenBy(t, names) == t # <<>> /\ Head(t) \in names

\* C26: in the Health Nut mode, whenever the AI text holds a well-formed
\* table token whose JSON parses, the parsed table is attached to at least
\* one returned message, whichever character (Qaylee or Plato) speaks.
C26_ParsedTableReturned ==
    \A p \in Procs :
        (Answer(p, "healthNut") /\ SpokenBy(req[p].text, {"Qaylee:", "Plato:"})
            /\ Contains(req[p].text, WellFormedTables)
            /\ ~Contains(req[p].text, MalformedTables)) =>
            \E k \in DOMAIN req[p].reply.messages : req[p].reply.messages[k].table # NULL

ZombiesTokenRegexes ==
    {reasoningRegex, engagementRegex, bonusRegex, totalScoreRegex, oldScoreRegex, badgeRegex}

\* C27: in the Thought Zombies mode, the message returned by
\* POST /api/thought-zombies/dialogue for display holds none of the
\* protocol's tokens ([REASONING +N: ..], [ENGAGEMENT +N: ..], [BONUS +N: ..],
\* [TOTAL: +N], [Score: +N], [badge: name]), for every AI text.
C27_ZombiesMessageHasNoToken ==
    \A p \in Procs :
        ZombiesReplied(p) =>
            \A re \in ZombiesTokenRegexes : ~hasToken(re, req[p].reply.message)

(***************************************************************************)
(* Seeding of the reference data                                           *)
(***************************************************************************)
\* a server has started and no initialization is under way
Initialized ==
    /\ reference.starts > 0
    /\ \A p \in Procs : /\ reference.run[p].questions \in {"idle", "done"}
                         /\ reference.run[p].badges \in {"idle", "done"}

\* C29: seeding of the reference data is idempotent: after any number of
\* server starts (runs of initializeBadges and initializeQuestions) table
\* badges holds exactly the seeded badges and table aot_questions exactly
\* the seeded questions, one row each.
C29_SeededExactlyOnce ==
    Initialized =>
        /\ \A b \in BadgeIds : reference.badges[b] = 1
        /\ \A q \in 1..NumQuestions : reference.aotQuestions[q] = 1

(***************************************************************************)
(* The updateScore loop of the game components                             *)
(***************************************************************************)
\* the loop of the award has ended
LoopEnds == session'.toPost = Tail(session.toPost) /\ ~session'.posted

====
